---- MODULE Spec2Model ----
(***************************************************************************)
(* The game-state engine of tug_of_orb: Position, Direction, Node, Grid,   *)
(* ColorCounts and Game (fill, increment_turn, execute_turn).              *)
(*                                                                         *)
(* Option<T> is modelled as a sequence: None is <<>> and Some(v) is <<v>>. *)
(* The board is Width x Height instead of 16 x 16; coordinates keep their  *)
(* u8 range, so a step to the right of the last column is representable.   *)
(***************************************************************************)
EXTENDS Integers, Sequences, FiniteSets, TLC

\* ---------------------------------------------------------------- bounds
Width == 4
Height == 2
MaxSeed == 150
MaxFillSeed == 40
MaxTurns == 2
MaxPcgSeed == 2
MaxDraws == 10
MaxGenSeed == 3
MaxRounds == 5
MaxRoundSeed == 12
MaxScrollCell == 3
MaxScrollOffset == 5
MaxPressed == 2

\* ------------------------------------------------------ program constants
U8Max == 255
U16Max == 65535
BoardSize == 16

None == <<>>
Some(v) == <<v>>

Colors == {"Red", "Blue", "Yellow", "Green"}
ColorSeq == <<"Red", "Blue", "Yellow", "Green">>
DirectionSeq == <<"Left", "Up", "Right", "Down">>
Directions == {"Left", "Up", "Right", "Down"}

NumCells == Width * Height

\* ------------------------------------------------------------- Direction
rotate_direction(d) ==
    CASE d = "Left" -> "Up"
      [] d = "Up" -> "Right"
      [] d = "Right" -> "Down"
      [] d = "Down" -> "Left"

opposite(d) ==
    CASE d = "Left" -> "Right"
      [] d = "Up" -> "Down"
      [] d = "Right" -> "Left"
      [] d = "Down" -> "Up"

\* -------------------------------------------------------------- Position
Position(x, y) == [x |-> x, y |-> y]

move(p, d) ==
    CASE d = "Left" -> IF p.x > 0 THEN Some(Position(p.x - 1, p.y)) ELSE None
      [] d = "Up" -> IF p.y > 0 THEN Some(Position(p.x, p.y - 1)) ELSE None
      [] d = "Right" -> IF p.x < U8Max THEN Some(Position(p.x + 1, p.y)) ELSE None
      [] d = "Down" -> IF p.y < U8Max THEN Some(Position(p.x, p.y + 1)) ELSE None

\* ------------------------------------------------------------------ Node
Empty == [kind |-> "Empty", alignment |-> None, direction |-> None]
Wall == [kind |-> "Wall", alignment |-> None, direction |-> None]
Arrow(a, d) == [kind |-> "Arrow", alignment |-> a, direction |-> Some(d)]
AllDirection(a) == [kind |-> "AllDirection", alignment |-> a, direction |-> None]
SuperArrow(a, d) == [kind |-> "SuperArrow", alignment |-> a, direction |-> Some(d)]

Colourable(node) == node.kind \in {"Arrow", "AllDirection", "SuperArrow"}

color(node) == IF Colourable(node) THEN node.alignment ELSE None

is_color(node, c) == IF Colourable(node) THEN node.alignment = Some(c) ELSE FALSE

\* rotate, turning the other way round.
rotate_counter_clockwise(node) ==
    IF node.kind \in {"Arrow", "SuperArrow"}
    THEN [node EXCEPT !.direction = Some(opposite(rotate_direction(node.direction[1])))]
    ELSE node

rotate(node) ==
    IF node.kind \in {"Arrow", "SuperArrow"}
    THEN [node EXCEPT !.direction = Some(rotate_direction(node.direction[1]))]
    ELSE node

set_direction(node, new_direction) ==
    IF node.kind \in {"Arrow", "SuperArrow"}
    THEN [node EXCEPT !.direction = Some(new_direction)]
    ELSE node

direction(node) ==
    IF node.kind \in {"Arrow", "SuperArrow"} THEN node.direction ELSE None

all_directions(node) == node.kind = "AllDirection"

\* set_color returns whether the colour was set; set_color_node is the node
\* it leaves behind.
set_color(node, c) == Colourable(node) /\ node.alignment # Some(c)

\* A set_color that writes the colour into whatever node it is given.
set_color_node_any(node, c) == [node EXCEPT !.alignment = Some(c)]

set_color_node(node, c) ==
    IF Colourable(node) /\ node.alignment # Some(c)
    THEN [node EXCEPT !.alignment = Some(c)]
    ELSE node

is_hidden(node) ==
    IF node.kind \in {"AllDirection", "SuperArrow"} THEN node.alignment = None ELSE FALSE

is_wall(node) == node.kind = "Wall"

\* ------------------------------------------------------------------ Grid
Rows == 0 .. (Height - 1)
Cols == 0 .. (Width - 1)
Cells == {Position(x, y) : x \in Cols, y \in Rows}

get(g, p) == IF p.y < Height /\ p.x < Width THEN Some(g[p.y][p.x]) ELSE None

CountOf(g, c) == Cardinality({p \in Cells : color(g[p.y][p.x]) = Some(c)})

\* try_into().ok(): a count of zero has no NonZeroU16.
NonZero(n) == IF n = 0 THEN None ELSE Some(n)

\* Counters that start out empty, whatever the grid holds.
grid_color_counts_none(g) == [c \in Colors |-> None]

grid_color_counts(g) == [c \in Colors |-> NonZero(CountOf(g, c))]

\* A change that credits the colour that was displaced.
change_credits_displaced(cc, increment, decrement) ==
    [counts |-> [cc EXCEPT ![IF decrement # None THEN decrement[1] ELSE increment] =
                               IF @ = None THEN Some(1) ELSE Some(@[1] + 1)],
     panic |-> FALSE]

\* ----------------------------------------------------------- ColorCounts
\* A change that forgets the colour that was displaced.
change_no_decrement(cc, increment, decrement) ==
    [counts |-> [cc EXCEPT ![increment] = IF @ = None THEN Some(1) ELSE Some(@[1] + 1)],
     panic |-> FALSE]

\* change increments first and decrements second; either step can hit its
\* expect(), in which case the statements after it never run.
change(cc, increment, decrement) ==
    LET overflow == cc[increment] # None /\ cc[increment][1] = U16Max
        inc == [cc EXCEPT ![increment] = IF @ = None THEN Some(1) ELSE Some(@[1] + 1)]
        underflow == decrement # None /\ inc[decrement[1]] = None
        dec == IF decrement = None
               THEN inc
               ELSE [inc EXCEPT ![decrement[1]] = NonZero(@[1] - 1)]
    IN  IF overflow THEN [counts |-> cc, panic |-> TRUE]
        ELSE IF underflow THEN [counts |-> inc, panic |-> TRUE]
        ELSE [counts |-> dec, panic |-> FALSE]

is_eliminated(cc, c) == cc[c] = None

\* ------------------------------------------------------------ Game::fill
\* The state fill threads through its recursion: the grid and the counters
\* of the Game, the visited array of the caller, and whether a panic ended
\* the call.
NoneVisited == [y \in Rows |-> [x \in Cols |-> FALSE]]

\* A visited test that never finds a cell visited.
never_visited(v, position) == FALSE

\* fill's test of the visited array.
was_visited(v, position) == v[position.y][position.x]

\* Only({e(v) : v \in {x}}) is e(x) with x computed once, before e: a
\* statement sequence "let v = x; e(v)".
Only(S) == CHOOSE r \in S : TRUE

RECURSIVE fill(_, _, _)

\* "if let Some(new_position) = ... { self.fill(new_position, ...) }"
fill_to(st, tc, new_position) ==
    IF new_position # None THEN fill(st, tc, new_position[1]) ELSE st

\* The loop of an AllDirection over Left, Up, Right, Down, each iteration on
\* the state the one before left.
fill_all(st, tc, position) ==
    CHOOSE r \in
        {fill_to(s3, tc, n4) : n4 \in {move(position, DirectionSeq[4])}, s3 \in
        {fill_to(s2, tc, n3) : n3 \in {move(position, DirectionSeq[3])}, s2 \in
        {fill_to(s1, tc, n2) : n2 \in {move(position, DirectionSeq[2])}, s1 \in
        {fill_to(st, tc, n1) : n1 \in {move(position, DirectionSeq[1])}}}}} : TRUE

\* "Deal with the node this node points to."
fill_outgoing(st, tc, position, node) ==
    IF is_hidden(node) THEN st
    ELSE IF direction(node) # None
    THEN CHOOSE r \in {fill_to(st, tc, new_position) :
                       new_position \in {move(position, direction(node)[1])}} : TRUE
    ELSE IF all_directions(node) THEN fill_all(st, tc, position)
    ELSE st

\* An incoming rule without the is_hidden test.
points_back_hidden_too(g, new_position, d) ==
    /\ new_position # None
    /\ get(g, new_position[1]) # None
    /\ \/ direction(get(g, new_position[1])[1]) = Some(opposite(d))
       \/ all_directions(get(g, new_position[1])[1])

\* Whether fill at a cell recurses into new_position, the cell's neighbour
\* in direction d: new_position holds a node that is not hidden and that
\* points back at the cell or is an AllDirection.
points_back(g, new_position, d) ==
    /\ new_position # None
    /\ get(g, new_position[1]) # None
    /\ ~is_hidden(get(g, new_position[1])[1])
    /\ \/ direction(get(g, new_position[1])[1]) = Some(opposite(d))
       \/ all_directions(get(g, new_position[1])[1])

\* One iteration of "Deal with the nodes pointing to this node."
fill_back(st, tc, new_position, d) ==
    IF points_back(st.grid, new_position, d) THEN fill(st, tc, new_position[1]) ELSE st

\* "Deal with the nodes pointing to this node": the neighbours Left, Up,
\* Right, Down, each iteration on the state the one before left.
fill_incoming(st, tc, position) ==
    CHOOSE r \in
        {fill_back(s3, tc, n4, DirectionSeq[4]) : n4 \in {move(position, DirectionSeq[4])}, s3 \in
        {fill_back(s2, tc, n3, DirectionSeq[3]) : n3 \in {move(position, DirectionSeq[3])}, s2 \in
        {fill_back(s1, tc, n2, DirectionSeq[2]) : n2 \in {move(position, DirectionSeq[2])}, s1 \in
        {fill_back(st, tc, n1, DirectionSeq[1]) : n1 \in {move(position, DirectionSeq[1])}}}}} : TRUE

\* The first statements of fill at a position on the grid that was not yet
\* visited: mark it, set the colour, and change the counters if it was set.
fill_node(st, tc, position) ==
    LET node == get(st.grid, position)[1]
        old_color == color(node)
        changed == set_color(node, tc)
        ch == change(st.color_counts, tc, old_color)
    IN  [st EXCEPT !.visited[position.y][position.x] = TRUE,
                   !.grid[position.y][position.x] = set_color_node(node, tc),
                   !.color_counts = IF changed THEN ch.counts ELSE @,
                   !.panic = changed /\ ch.panic]

\* The statements of fill in their order: the node itself, the node it
\* points to, then the nodes pointing to it. A state that has panicked
\* passes through unchanged.
fill(st, tc, position) ==
    IF st.panic \/ get(st.grid, position) = None \/ was_visited(st.visited, position)
    THEN st
    ELSE IF /\ ~set_color(get(st.grid, position)[1], tc)
            /\ ~is_color(get(st.grid, position)[1], tc)
    THEN fill_node(st, tc, position)
    ELSE CHOOSE r \in
             {fill_incoming(s1, tc, position) : s1 \in
             {fill_outgoing(s0, tc, position, get(s0.grid, position)[1]) : s0 \in
             {fill_node(st, tc, position)}}} : TRUE

\* -------------------------------------------------- Game::increment_turn
\* The colours each mover's branch tests, in the order it tests them.
TurnOrder ==
    [c \in Colors |->
        CASE c = "Red" -> <<"Blue", "Yellow", "Green">>
          [] c = "Blue" -> <<"Yellow", "Green", "Red">>
          [] c = "Yellow" -> <<"Green", "Red", "Blue">>
          [] c = "Green" -> <<"Red", "Blue", "Yellow">>]

\* The superseded order run backwards: Green before Yellow before Blue.
increment_turn_backwards(cc, tc) ==
    LET o == TurnOrder[tc]
    IN  IF cc[o[3]] # None THEN o[3]
        ELSE IF cc[o[2]] # None THEN o[2]
        ELSE IF cc[o[1]] # None THEN o[1]
        ELSE tc

\* The superseded increment: the next colour, eliminated or not.
increment_turn_unconditional(cc, tc) == TurnOrder[tc][1]

increment_turn(cc, tc) ==
    LET o == TurnOrder[tc]
    IN  IF cc[o[1]] # None THEN o[1]
        ELSE IF cc[o[2]] # None THEN o[2]
        ELSE IF cc[o[3]] # None THEN o[3]
        ELSE tc

\* --------------------------------------------------- Game::execute_turn
\* An execute_turn whose SuperArrow redirects nothing.
beam_none(g, position, d) == [grid |-> g, panic |-> FALSE]

\* The redirect beam of a rotated SuperArrow. get_mut(new_pos).unwrap()
\* panics when move hands back a position that is not on the grid.
RECURSIVE beam(_, _, _)
beam(g, position, d) ==
    LET new_pos == move(position, d)
    IN  IF new_pos = None THEN [grid |-> g, panic |-> FALSE]
        ELSE IF get(g, new_pos[1]) = None THEN [grid |-> g, panic |-> TRUE]
        ELSE IF is_wall(get(g, new_pos[1])[1]) THEN [grid |-> g, panic |-> FALSE]
        ELSE beam([g EXCEPT ![new_pos[1].y][new_pos[1].x] = set_direction(@, d)],
                  new_pos[1], d)

\* A match that reports the first surviving colour, whoever else survives.
winner_first_alive(cc) ==
    IF cc["Red"] # None THEN Some("Red")
    ELSE IF cc["Blue"] # None THEN Some("Blue")
    ELSE IF cc["Yellow"] # None THEN Some("Yellow")
    ELSE IF cc["Green"] # None THEN Some("Green")
    ELSE None

\* The final match on the four counters.
winner(cc) ==
    LET t == <<cc["Red"] # None, cc["Blue"] # None, cc["Yellow"] # None, cc["Green"] # None>>
    IN  CASE t = <<TRUE, FALSE, FALSE, FALSE>> -> Some("Red")
          [] t = <<FALSE, TRUE, FALSE, FALSE>> -> Some("Blue")
          [] t = <<FALSE, FALSE, TRUE, FALSE>> -> Some("Yellow")
          [] t = <<FALSE, FALSE, FALSE, TRUE>> -> Some("Green")
          [] OTHER -> None

Err == [tag |-> "Err", winner |-> None]
Ok(w) == [tag |-> "Ok", winner |-> w]
Panic == [tag |-> "Panic", winner |-> None]

\* execute_turn without its is_color test.
rotate_and_beam_unchecked(g, tc, p) ==
    IF get(g, p) = None THEN [grid |-> g, tag |-> "Err"]
    ELSE LET node == rotate(get(g, p)[1])
             g1 == [g EXCEPT ![p.y][p.x] = node]
         IN  IF node.kind = "SuperArrow"
             THEN LET b == beam(g1, p, node.direction[1])
                  IN  [grid |-> b.grid, tag |-> IF b.panic THEN "Panic" ELSE "Ok"]
             ELSE [grid |-> g1, tag |-> "Ok"]

\* The part of execute_turn before fill: the ownership check, the rotation
\* and the beam. It yields the grid and how far the call got.
rotate_and_beam(g, tc, p) ==
    IF get(g, p) = None THEN [grid |-> g, tag |-> "Err"]
    ELSE IF ~is_color(get(g, p)[1], tc) THEN [grid |-> g, tag |-> "Err"]
    ELSE LET node == rotate(get(g, p)[1])
             g1 == [g EXCEPT ![p.y][p.x] = node]
         IN  IF node.kind = "SuperArrow"
             THEN LET b == beam(g1, p, node.direction[1])
                  IN  [grid |-> b.grid, tag |-> IF b.panic THEN "Panic" ELSE "Ok"]
             ELSE [grid |-> g1, tag |-> "Ok"]

\* fill as execute_turn calls it, with a fresh visited array.
fill_from(g, cc, tc, p) ==
    Only({fill(st, tc, p) :
          st \in {[grid |-> g, color_counts |-> cc,
                   visited |-> NoneVisited, panic |-> FALSE]}})

execute_turn(game, p) ==
    Only({
        IF rb.tag = "Err" THEN [game |-> game, result |-> Err]
        ELSE IF rb.tag = "Panic"
        THEN [game |-> [game EXCEPT !.grid = rb.grid], result |-> Panic]
        ELSE Only({
            IF st.panic
            THEN [game |-> [game EXCEPT !.grid = st.grid,
                                        !.color_counts = st.color_counts],
                  result |-> Panic]
            ELSE [game |-> [grid |-> st.grid,
                            color_counts |-> st.color_counts,
                            turn_color |-> increment_turn(st.color_counts,
                                                          game.turn_color)],
                  result |-> Ok(winner(st.color_counts))] :
            st \in {fill_from(rb.grid, game.color_counts, game.turn_color, p)}}) :
        rb \in {rotate_and_beam(game.grid, game.turn_color, p)}})

\* --------------------------------------------------------- Builder::build
build(g, tc) == [grid |-> g, color_counts |-> grid_color_counts(g), turn_color |-> tc]

\* ------------------------------------------------------- initial boards
\* Builder::grid accepts any board. The boards tried are drawn cell by cell
\* from every node value with a small congruential sequence, one board per
\* seed, plus the boards named below.
LcgNext(s) == (s * 1101 + 12345) % 32768

RECURSIVE LcgAt(_, _)
LcgAt(seed, k) == IF k = 0 THEN (seed * 7919 + 17) % 32768 ELSE LcgNext(LcgAt(seed, k - 1))

Draw(seed, k, n) == (LcgAt(seed, k) \div 16) % n

SampleAlignment(r) == IF r = 0 THEN None ELSE Some(ColorSeq[r])

SampleNode(seed, k) ==
    LET kind == Draw(seed, 3 * k + 1, 16)
        a == SampleAlignment(Draw(seed, 3 * k + 2, 5))
        d == DirectionSeq[Draw(seed, 3 * k + 3, 4) + 1]
    IN  IF kind = 0 THEN Empty
        ELSE IF kind <= 3 THEN Wall
        ELSE IF kind <= 9 THEN Arrow(a, d)
        ELSE IF kind <= 11 THEN AllDirection(a)
        ELSE SuperArrow(a, d)

SampleGrid(seed) == [y \in Rows |-> [x \in Cols |-> SampleNode(seed, y * Width + x)]]

\* One path through every cell: even rows run right, odd rows run left, and
\* the last cell of a row points down. The first cell belongs to Red.
SnakeGrid ==
    [y \in Rows |-> [x \in Cols |->
        LET d == IF y % 2 = 0
                 THEN (IF x = Width - 1 THEN "Down" ELSE "Right")
                 ELSE (IF x = 0 THEN "Down" ELSE "Left")
        IN  Arrow(IF x = 0 /\ y = 0 THEN Some("Red") ELSE None,
                  IF x = 0 /\ y = 0 THEN "Up" ELSE d)]]

\* The board of main: every node an unaligned Arrow pointing Right, except
\* the Red Arrow pointing Up at (0,0).
AllRightGrid ==
    [y \in Rows |-> [x \in Cols |->
        IF x = 0 /\ y = 0 THEN Arrow(Some("Red"), "Up") ELSE Arrow(None, "Right")]]

\* The same board with one of its Arrows below row 0 held by another colour.
AllRightGridWith(p, c) == [AllRightGrid EXCEPT ![p.y][p.x] = Arrow(Some(c), "Right")]

AllRightGrids ==
    {AllRightGrid} \cup
    {AllRightGridWith(p, c) : p \in {q \in Cells : q.y > 0}, c \in Colors \ {"Red"}}

\* The board main builds: the all-Right board with Arrows of the other three
\* colours, pointing Up, next to the Red one.
MainGrid ==
    [AllRightGrid EXCEPT ![0][1] = Arrow(Some("Blue"), "Up"),
                         ![0][2] = Arrow(Some("Yellow"), "Up"),
                         ![0][3] = Arrow(Some("Green"), "Up")]

InitialGrids ==
    {SampleGrid(seed) : seed \in 1 .. MaxSeed} \cup {SnakeGrid, MainGrid} \cup AllRightGrids

\* The positions a caller submits: every cell, and positions off the board.
TurnPositions ==
    Cells \cup {Position(Width, 0), Position(0, Height), Position(U8Max, U8Max)}

\* ------------------------------------------------------------ the state
VARIABLES
    grid,          \* Game::grid
    color_counts,  \* Game::color_counts
    turn_color,    \* Game::turn_color
    result,        \* what the last execute_turn returned
    last_turn,     \* the Turn of the last execute_turn
    prev,          \* the Game as it was when the last execute_turn was called
    turns,         \* the number of execute_turn calls so far
    decided,       \* the winner the first Ok(Some(c)) named, if one was returned
    call,          \* the last call of a function that has no state, with what it returned
    phase,         \* "idle" between calls, "fill" while execute_turn is inside fill
    stack,         \* the invocations of fill that have not returned, outermost first
    visited,       \* the visited array execute_turn hands to fill
    processed      \* how often fill got past its visited test, per cell, in this call

vars == <<grid, color_counts, turn_color, result, last_turn, prev, turns, decided, call,
          phase, stack, visited, processed>>

gameVars == <<grid, color_counts, turn_color, result, last_turn, prev, turns, decided>>
fillVars == <<phase, stack, visited, processed>>

Game == [grid |-> grid, color_counts |-> color_counts, turn_color |-> turn_color]

NoResult == [tag |-> "None", winner |-> None]
NoCall == [op |-> "none"]
NoneProcessed == [p \in Cells |-> 0]

NoFill ==
    /\ phase = "idle"
    /\ stack = <<>>
    /\ visited = NoneVisited
    /\ processed = NoneProcessed

InitGame(grids) ==
    \E g \in grids, tc \in Colors :
        /\ grid = g
        /\ color_counts = build(g, tc).color_counts
        /\ turn_color = tc
        /\ result = NoResult
        /\ last_turn = Position(0, 0)
        /\ prev = build(g, tc)
        /\ turns = 0
        /\ decided = None
        /\ call = NoCall
        /\ NoFill

Init == InitGame(InitialGrids)

\* One call of Game::execute_turn. A panic ends the program.
ExecuteTurn(p) ==
    /\ turns < MaxTurns
    /\ result.tag # "Panic"
    /\ \E r \in {execute_turn(Game, p)} :
           /\ grid' = r.game.grid
           /\ color_counts' = r.game.color_counts
           /\ turn_color' = r.game.turn_color
           /\ result' = r.result
           /\ decided' = IF decided = None /\ r.result.tag = "Ok"
                         THEN r.result.winner
                         ELSE decided
    /\ last_turn' = p
    /\ prev' = Game
    /\ turns' = turns + 1
    /\ UNCHANGED call
    /\ UNCHANGED fillVars

Next == \E p \in TurnPositions : ExecuteTurn(p)

Spec == Init /\ [][Next]_vars

\* ------------------------------------------- execute_turn, step by step
\* The same execute_turn with fill run one invocation step at a time. A
\* frame is one invocation of fill: its position and how far it got
\* ("enter": at its first statement, "all": in the loop over the four
\* directions of an AllDirection, "incoming": in the loop over the nodes
\* pointing to this node), with the index of the next direction.
Frame(p) == [position |-> p, pc |-> "enter", i |-> 1]
Top == stack[Len(stack)]
Pop(s) == SubSeq(s, 1, Len(s) - 1)
SetTop(s, f) == [s EXCEPT ![Len(s)] = f]
\* Leave the top frame as f and call fill at new_position if there is one.
CallFrom(s, f, new_position) ==
    IF new_position # None THEN Append(SetTop(s, f), Frame(new_position[1])) ELSE SetTop(s, f)

InitFill == InitGame({SampleGrid(seed) : seed \in 1 .. MaxFillSeed} \cup {SnakeGrid})

\* execute_turn up to its call of fill.
StartTurn(p) ==
    /\ phase = "idle"
    /\ turns < MaxTurns
    /\ result.tag # "Panic"
    /\ \E rb \in {rotate_and_beam(grid, turn_color, p)} :
           /\ grid' = rb.grid
           /\ IF rb.tag = "Ok"
              THEN /\ phase' = "fill"
                   /\ stack' = <<Frame(p)>>
                   /\ result' = NoResult
              ELSE /\ phase' = "idle"
                   /\ stack' = <<>>
                   /\ result' = IF rb.tag = "Err" THEN Err ELSE Panic
    /\ visited' = NoneVisited
    /\ processed' = NoneProcessed
    /\ last_turn' = p
    /\ prev' = Game
    /\ turns' = turns + 1
    /\ UNCHANGED <<color_counts, turn_color, decided, call>>

\* fill from its first statement to its first recursive call (or its return,
\* or the start of one of its loops).
FillEnter ==
    /\ phase = "fill"
    /\ stack # <<>>
    /\ Top.pc = "enter"
    /\ LET position == Top.position
       IN  IF get(grid, position) = None
           THEN /\ stack' = Pop(stack)
                /\ UNCHANGED <<grid, color_counts, visited, processed, phase, result>>
           ELSE IF was_visited(visited, position)
           THEN /\ stack' = Pop(stack)
                /\ UNCHANGED <<grid, color_counts, visited, processed, phase, result>>
           ELSE \E st1 \in {fill_node([grid |-> grid, color_counts |-> color_counts,
                                       visited |-> visited, panic |-> FALSE],
                                      turn_color, position)} :
                \E node \in {get(st1.grid, position)[1]} :
                    /\ grid' = st1.grid
                    /\ color_counts' = st1.color_counts
                    /\ visited' = st1.visited
                    /\ processed' = [processed EXCEPT ![position] = @ + 1]
                    /\ IF st1.panic
                       THEN /\ stack' = <<>>
                            /\ phase' = "idle"
                            /\ result' = Panic
                       ELSE /\ UNCHANGED <<phase, result>>
                            /\ stack' =
                                 IF /\ ~set_color(get(grid, position)[1], turn_color)
                                    /\ ~is_color(get(grid, position)[1], turn_color)
                                 THEN Pop(stack)
                                 ELSE IF is_hidden(node)
                                 THEN SetTop(stack, [Top EXCEPT !.pc = "incoming"])
                                 ELSE IF direction(node) # None
                                 THEN CallFrom(stack, [Top EXCEPT !.pc = "incoming"],
                                               move(position, direction(node)[1]))
                                 ELSE IF all_directions(node)
                                 THEN SetTop(stack, [Top EXCEPT !.pc = "all"])
                                 ELSE SetTop(stack, [Top EXCEPT !.pc = "incoming"])
    /\ UNCHANGED <<turn_color, last_turn, prev, turns, decided, call>>

\* One round of the loop of an AllDirection over the four directions.
FillAll ==
    /\ phase = "fill"
    /\ stack # <<>>
    /\ Top.pc = "all"
    /\ stack' = CallFrom(stack,
                         IF Top.i = 4
                         THEN [Top EXCEPT !.pc = "incoming", !.i = 1]
                         ELSE [Top EXCEPT !.i = @ + 1],
                         move(Top.position, DirectionSeq[Top.i]))
    /\ UNCHANGED <<gameVars, call, phase, visited, processed>>

\* One round of the loop over the nodes pointing to this node.
FillIncoming ==
    /\ phase = "fill"
    /\ stack # <<>>
    /\ Top.pc = "incoming"
    /\ Top.i <= 4
    /\ \E new_position \in {move(Top.position, DirectionSeq[Top.i])} :
           stack' = CallFrom(stack, [Top EXCEPT !.i = @ + 1],
                             IF points_back(grid, new_position, DirectionSeq[Top.i])
                             THEN new_position
                             ELSE None)
    /\ UNCHANGED <<gameVars, call, phase, visited, processed>>

\* The end of fill's body.
FillReturn ==
    /\ phase = "fill"
    /\ stack # <<>>
    /\ Top.pc = "incoming"
    /\ Top.i > 4
    /\ stack' = Pop(stack)
    /\ UNCHANGED <<gameVars, call, phase, visited, processed>>

\* execute_turn after fill has returned: increment_turn and the result.
FinishTurn ==
    /\ phase = "fill"
    /\ stack = <<>>
    /\ phase' = "idle"
    /\ turn_color' = increment_turn(color_counts, turn_color)
    /\ result' = Ok(winner(color_counts))
    /\ decided' = IF decided = None THEN winner(color_counts) ELSE decided
    /\ UNCHANGED <<grid, color_counts, last_turn, prev, turns, call, stack, visited, processed>>

NextFill ==
    \/ \E p \in TurnPositions : StartTurn(p)
    \/ FillEnter
    \/ FillAll
    \/ FillIncoming
    \/ FillReturn
    \/ FinishTurn

SpecFill == InitFill /\ [][NextFill]_vars

\* The program runs on: a call that has started takes its next step.
FairSpecFill == SpecFill /\ WF_vars(FillEnter \/ FillAll \/ FillIncoming \/ FillReturn \/ FinishTurn)

\* -------------------------------------------------- Position::move alone
\* Position::move on the coordinates of the 16 x 16 board, one call at a time.
BoardPositions == {Position(x, y) : x \in 0 .. (BoardSize - 1), y \in 0 .. (BoardSize - 1)}

InitMove ==
    /\ grid = SnakeGrid
    /\ color_counts = build(SnakeGrid, "Red").color_counts
    /\ turn_color = "Red"
    /\ result = NoResult
    /\ last_turn = Position(0, 0)
    /\ prev = build(SnakeGrid, "Red")
    /\ turns = 0
    /\ decided = None
    /\ call = NoCall
    /\ NoFill

CallMove(p, d) ==
    /\ call' = [op |-> "move", position |-> p, direction |-> d, ret |-> move(p, d)]
    /\ UNCHANGED gameVars
    /\ UNCHANGED fillVars

NextMove == \E p \in BoardPositions, d \in Directions : CallMove(p, d)

SpecMove == InitMove /\ [][NextMove]_vars

\* ============================================================= random.rs
\* A u64 is the sequence of its eight bytes and a u32 the sequence of its
\* four bytes, least significant byte first: the numbers do not fit the
\* integers of the model checker.
BigEndian(s) == [i \in 1 .. Len(s) |-> s[Len(s) + 1 - i]]

\* The u64 of a number below 2^31.
U64From(n) ==
    <<n % 256, (n \div 256) % 256, (n \div 65536) % 256, n \div 16777216, 0, 0, 0, 0>>

\* "const MULTIPLIER: u32 = 0xf13283ad", and MULTIPLIER.into() as a u64.
MULTIPLIER == BigEndian(<<\hf1, \h32, \h83, \had>>)
Into64(w) == [i \in 1 .. 8 |-> IF i <= Len(w) THEN w[i] ELSE 0]

\* Bit k of a number, 0 beyond its width.
Bit(s, k) == IF k < 8 * Len(s) THEN (s[(k \div 8) + 1] \div (2 ^ (k % 8))) % 2 ELSE 0

\* The byte whose bit j is b(j).
Pack(b(_)) ==
    b(0) + 2 * b(1) + 4 * b(2) + 8 * b(3) + 16 * b(4) + 32 * b(5) + 64 * b(6) + 128 * b(7)

\* a >> n and a ^ b on u64.
shr(a, n) == [i \in 1 .. 8 |-> Pack(LAMBDA j : Bit(a, 8 * (i - 1) + j + n))]
xor(a, b) ==
    [i \in 1 .. 8 |-> Pack(LAMBDA j : (Bit(a, 8 * (i - 1) + j) + Bit(b, 8 * (i - 1) + j)) % 2)]

\* Column k of the long multiplication of two u64: the sum of the products
\* of the bytes whose places add up to k.
MulColumn(a, m, k) ==
    LET part[i \in 0 .. k] == IF i = 0 THEN 0 ELSE part[i - 1] + a[i] * m[k + 1 - i]
    IN  part[k]

\* u64::wrapping_mul: the low eight bytes of the product.
wrapping_mul(a, m) ==
    LET carry[k \in 0 .. 8] ==
            IF k = 0 THEN 0 ELSE (MulColumn(a, m, k) + carry[k - 1]) \div 256
    IN  [k \in 1 .. 8 |-> (MulColumn(a, m, k) + carry[k - 1]) % 256]

\* u64::wrapping_add: the low eight bytes of the sum.
wrapping_add(a, b) ==
    LET carry[k \in 0 .. 8] == IF k = 0 THEN 0 ELSE (a[k] + b[k] + carry[k - 1]) \div 256
    IN  [k \in 1 .. 8 |-> (a[k] + b[k] + carry[k - 1]) % 256]

\* "as u32" and "as u8" of a u64 or u32.
as_u32(a) == SubSeq(a, 1, 4)
as_u8(a) == a[1]

\* Pcg32Fast::new: "The state must be odd."
pcg_new(seed) == wrapping_add(wrapping_mul(seed, U64From(2)), U64From(1))

\* Pcg32Fast::next_u32 without the xor of the state with itself shifted.
next_u32_no_xorshift(state) ==
    CHOOSE r \in
        {[state |-> s1, value |-> as_u32(shr(s1, 22 + count))] :
            count \in {shr(state, 61)[1]},
            s1 \in {wrapping_mul(state, Into64(MULTIPLIER))}} : TRUE

\* Pcg32Fast::next_u32: the state after the call and the value returned.
next_u32(state) ==
    CHOOSE r \in
        {[state |-> s2, value |-> as_u32(shr(s2, 22 + count))] :
            count \in {shr(state, 61)[1]},
            s2 \in {xor(s1, shr(s1, 22)) :
                        s1 \in {wrapping_mul(state, Into64(MULTIPLIER))}}} : TRUE

\* next_u64 with the first draw as the high word.
next_u64_high_first(state) ==
    CHOOSE r \in
        {[state |-> y.state, value |-> y.value \o x.value] :
            y \in {next_u32(x.state) : x \in {next_u32(state)}},
            x \in {next_u32(state)}} : TRUE

\* Pcg32Fast::next_u64, rand_core's next_u64_via_u32: two calls of next_u32,
\* x then y, and (y << 32) | x.
next_u64(state) ==
    CHOOSE r \in
        {[state |-> y.state, value |-> x.value \o y.value] :
            y \in {next_u32(x.state) : x \in {next_u32(state)}},
            x \in {next_u32(state)}} : TRUE

\* rng.gen::<u8>(): rand's Standard distribution takes "next_u32() as u8".
gen_u8(state) ==
    CHOOSE r \in {[state |-> x.state, value |-> as_u8(x.value)] : x \in {next_u32(state)}} : TRUE

\* The decimal digits of a number given by its bytes, most significant
\* digit first, by long division by ten from the most significant byte.
RECURSIVE Rem10(_, _)
Rem10(s, k) == IF k > Len(s) THEN 0 ELSE (Rem10(s, k + 1) * 256 + s[k]) % 10

Div10(s) == [i \in 1 .. Len(s) |-> (Rem10(s, i + 1) * 256 + s[i]) \div 10]

RECURSIVE Digits(_)
Digits(s) ==
    IF \A i \in 1 .. Len(s) : s[i] = 0 THEN <<>>
    ELSE CHOOSE r \in {Append(Digits(q), Rem10(s, 1)) : q \in {Div10(s)}} : TRUE

\* The seed of the tests of random.rs.
TestSeed == BigEndian(<<\hca, \hfe, \hf0, \h0d, \hd1, \h5e, \ha5, \he5>>)

PcgSeeds == {TestSeed} \cup {U64From(n) : n \in 0 .. MaxPcgSeed}

\* A generator made by new(seed) and the values its calls returned so far.
InitPcg ==
    /\ grid = SnakeGrid
    /\ color_counts = build(SnakeGrid, "Red").color_counts
    /\ turn_color = "Red"
    /\ result = NoResult
    /\ last_turn = Position(0, 0)
    /\ prev = build(SnakeGrid, "Red")
    /\ turns = 0
    /\ decided = None
    /\ \E seed \in PcgSeeds :
           call = [op |-> "new", seed |-> seed, before |-> pcg_new(seed),
                   state |-> pcg_new(seed), out |-> <<>>]
    /\ NoFill

NextU32 ==
    /\ Len(call.out) < MaxDraws
    /\ \E r \in {next_u32(call.state)} :
           call' = [call EXCEPT !.op = "next_u32", !.before = call.state,
                                !.state = r.state, !.out = Append(@, r.value)]
    /\ UNCHANGED gameVars
    /\ UNCHANGED fillVars

NextU64 ==
    /\ Len(call.out) < MaxDraws
    /\ \E r \in {next_u64(call.state)} :
           call' = [call EXCEPT !.op = "next_u64", !.before = call.state,
                                !.state = r.state, !.out = Append(@, r.value)]
    /\ UNCHANGED gameVars
    /\ UNCHANGED fillVars

NextPcg == NextU32 \/ NextU64

SpecPcg == InitPcg /\ [][NextPcg]_vars

\* =============================================================== grid.rs
\* Direction::clockwise and Direction::counter_clockwise.
clockwise(d) ==
    CASE d = "Left" -> "Up" [] d = "Up" -> "Right" [] d = "Right" -> "Down" [] d = "Down" -> "Left"

counter_clockwise(d) ==
    CASE d = "Left" -> "Down" [] d = "Up" -> "Left" [] d = "Right" -> "Up" [] d = "Down" -> "Right"

\* The indices of the board and of its top left quadrant.
Board == 0 .. (BoardSize - 1)
Quadrant == 0 .. ((BoardSize \div 2) - 1)
Last == BoardSize - 1

\* "Grid([[Node::Empty; 16]; 16])": rows of nodes, g[y][x].
EmptyGrid == [y \in Board |-> [x \in Board |-> Empty]]

\* The starting positions with the indices of Blue and Yellow exchanged.
starting_positions_transposed(g) ==
    [g EXCEPT ![0][0] = Arrow(Some("Red"), "Up"),
              ![Last][0] = Arrow(Some("Blue"), "Right"),
              ![0][Last] = Arrow(Some("Yellow"), "Left"),
              ![Last][Last] = Arrow(Some("Green"), "Down")]

\* "Starting positions."
starting_positions(g) ==
    [g EXCEPT ![0][0] = Arrow(Some("Red"), "Up"),
              ![0][Last] = Arrow(Some("Blue"), "Right"),
              ![Last][0] = Arrow(Some("Yellow"), "Left"),
              ![Last][Last] = Arrow(Some("Green"), "Down")]

populate_reflected_arrows(g, x, y, d) ==
    [g EXCEPT ![y][x] = Arrow(None, d),
              ![Last - x][y] = Arrow(None, counter_clockwise(d)),
              ![x][Last - y] = Arrow(None, clockwise(d)),
              ![Last - y][Last - x] = Arrow(None, opposite(d))]

\* The direction populate_wall gives a SuperArrow for a byte.
wall_direction(b) ==
    IF b <= 63 THEN "Left" ELSE IF b <= 127 THEN "Up" ELSE IF b <= 191 THEN "Right" ELSE "Down"

\* populate_wall on a grid and a generator, gs = [grid, state]: one byte
\* chooses AllDirection (0..=63), SuperArrow (64..=127, with a second byte
\* for its direction) or Wall.
populate_wall(gs, x, y) ==
    CHOOSE r \in
        {IF b.value <= 63
         THEN [grid |-> [gs.grid EXCEPT ![y][x] = AllDirection(None)], state |-> b.state]
         ELSE IF b.value <= 127
         THEN CHOOSE q \in
                  {[grid |-> [gs.grid EXCEPT ![y][x] = SuperArrow(None, wall_direction(c.value))],
                    state |-> c.state] : c \in {gen_u8(b.state)}} : TRUE
         ELSE [grid |-> [gs.grid EXCEPT ![y][x] = Wall], state |-> b.state] :
         b \in {gen_u8(gs.state)}} : TRUE

\* The four populate_wall calls of generate, in their order.
populate_walls(gs, x, y) ==
    CHOOSE r \in
        {populate_wall(g3, Last - x, Last - y) : g3 \in
        {populate_wall(g2, y, Last - x) : g2 \in
        {populate_wall(g1, Last - y, x) : g1 \in
        {populate_wall(gs, x, y)}}}} : TRUE

\* The match without the arms' tests for the cells next to the first
\* starting position.
generate_match_unprotected(gs, b, x, y) ==
    IF b <= 60
    THEN [grid |-> populate_reflected_arrows(gs.grid, x, y, "Left"), state |-> gs.state]
    ELSE IF b <= 120
    THEN [grid |-> populate_reflected_arrows(gs.grid, x, y, "Up"), state |-> gs.state]
    ELSE IF b <= 180
    THEN [grid |-> populate_reflected_arrows(gs.grid, x, y, "Right"), state |-> gs.state]
    ELSE IF b <= 240
    THEN [grid |-> populate_reflected_arrows(gs.grid, x, y, "Down"), state |-> gs.state]
    ELSE IF x = 0
    THEN [grid |-> populate_reflected_arrows(gs.grid, x, y, "Down"), state |-> gs.state]
    ELSE IF y = 0
    THEN [grid |-> populate_reflected_arrows(gs.grid, x, y, "Right"), state |-> gs.state]
    ELSE populate_walls(gs, x, y)

\* The match with its last arm calling populate_wall at every cell.
generate_match_walls_at_edges(gs, b, x, y) ==
    IF b <= 60
    THEN [grid |-> populate_reflected_arrows(gs.grid, x, y,
                       IF x = 1 /\ y = 0 THEN "Up" ELSE "Left"),
          state |-> gs.state]
    ELSE IF b <= 120
    THEN [grid |-> populate_reflected_arrows(gs.grid, x, y,
                       IF x = 0 /\ y = 1 THEN "Left" ELSE "Up"),
          state |-> gs.state]
    ELSE IF b <= 180
    THEN [grid |-> populate_reflected_arrows(gs.grid, x, y, "Right"), state |-> gs.state]
    ELSE IF b <= 240
    THEN [grid |-> populate_reflected_arrows(gs.grid, x, y, "Down"), state |-> gs.state]
    ELSE populate_walls(gs, x, y)

\* The match with its first arm ending one byte later, at 61.
generate_match_late(gs, b, x, y) ==
    IF b <= 61
    THEN [grid |-> populate_reflected_arrows(gs.grid, x, y,
                       IF x = 1 /\ y = 0 THEN "Up" ELSE "Left"),
          state |-> gs.state]
    ELSE IF b <= 120
    THEN [grid |-> populate_reflected_arrows(gs.grid, x, y,
                       IF x = 0 /\ y = 1 THEN "Left" ELSE "Up"),
          state |-> gs.state]
    ELSE IF b <= 180
    THEN [grid |-> populate_reflected_arrows(gs.grid, x, y, "Right"), state |-> gs.state]
    ELSE IF b <= 240
    THEN [grid |-> populate_reflected_arrows(gs.grid, x, y, "Down"), state |-> gs.state]
    ELSE IF x = 0
    THEN [grid |-> populate_reflected_arrows(gs.grid, x, y, "Down"), state |-> gs.state]
    ELSE IF y = 0
    THEN [grid |-> populate_reflected_arrows(gs.grid, x, y, "Right"), state |-> gs.state]
    ELSE populate_walls(gs, x, y)

\* The match of generate on the byte b drawn for the cell (x, y); gs holds
\* the grid and the generator after that draw.
generate_match(gs, b, x, y) ==
    IF b <= 60
    THEN [grid |-> populate_reflected_arrows(gs.grid, x, y,
                       IF x = 1 /\ y = 0 THEN "Up" ELSE "Left"),
          state |-> gs.state]
    ELSE IF b <= 120
    THEN [grid |-> populate_reflected_arrows(gs.grid, x, y,
                       IF x = 0 /\ y = 1 THEN "Left" ELSE "Up"),
          state |-> gs.state]
    ELSE IF b <= 180
    THEN [grid |-> populate_reflected_arrows(gs.grid, x, y, "Right"), state |-> gs.state]
    ELSE IF b <= 240
    THEN [grid |-> populate_reflected_arrows(gs.grid, x, y, "Down"), state |-> gs.state]
    ELSE IF x = 0
    THEN [grid |-> populate_reflected_arrows(gs.grid, x, y, "Down"), state |-> gs.state]
    ELSE IF y = 0
    THEN [grid |-> populate_reflected_arrows(gs.grid, x, y, "Right"), state |-> gs.state]
    ELSE populate_walls(gs, x, y)

\* The body of the loops of generate for one x and y: nothing for the first
\* starting position, else one byte and the match on it.
generate_cell(gs, x, y) ==
    IF x = 0 /\ y = 0 THEN gs
    ELSE CHOOSE r \in
        {generate_match([grid |-> gs.grid, state |-> b.state], b.value, x, y) :
         b \in {gen_u8(gs.state)}} : TRUE

\* generate before its loops: the grid with the starting positions and the
\* generator made from the seed.
generate_start(seed) ==
    [grid |-> starting_positions(EmptyGrid), state |-> pcg_new(seed)]

GenSeeds == {U64From(n) : n \in 0 .. MaxGenSeed}

\* The bytes the match is tried on: the ends of each of its arms and a
\* byte inside the first.
MatchBytes == {0, 30, 60, 61, 120, 121, 180, 181, 240, 241, U8Max}

\* A match yet to be made: on the byte b for the cell (x, y), with the
\* board as it is before the loops and the generator of a seed.
NoMatch(b, x, y, seed) ==
    [op |-> "match", byte |-> b, x |-> x, y |-> y, before |-> generate_start(seed).state,
     grid |-> generate_start(seed).grid, state |-> generate_start(seed).state,
     matched |-> FALSE]

\* A call of Grid::generate, one cell of its loops at a time ("for y in 0..8
\* { for x in 0..8"); it has returned call.grid when call.y has reached 8.
InitGen ==
    /\ grid = SnakeGrid
    /\ color_counts = build(SnakeGrid, "Red").color_counts
    /\ turn_color = "Red"
    /\ result = NoResult
    /\ last_turn = Position(0, 0)
    /\ prev = build(SnakeGrid, "Red")
    /\ turns = 0
    /\ decided = None
    /\ \/ \E seed \in GenSeeds : \E gs \in {generate_start(seed)} :
              call = [op |-> "generate", seed |-> seed, x |-> 0, y |-> 0,
                      grid |-> gs.grid, state |-> gs.state]
       \/ \E b \in MatchBytes, x \in Quadrant, y \in Quadrant, seed \in GenSeeds :
              (x # 0 \/ y # 0) /\ call = NoMatch(b, x, y, seed)
    /\ NoFill

GenerateCell ==
    /\ call.op = "generate"
    /\ call.y \in Quadrant
    /\ \E gs \in {generate_cell([grid |-> call.grid, state |-> call.state], call.x, call.y)} :
           call' = [call EXCEPT !.grid = gs.grid, !.state = gs.state,
                                !.x = IF call.x = Last \div 2 THEN 0 ELSE call.x + 1,
                                !.y = IF call.x = Last \div 2 THEN call.y + 1 ELSE call.y]
    /\ UNCHANGED gameVars
    /\ UNCHANGED fillVars

\* The match on its own.
MatchByte ==
    /\ call.op = "match"
    /\ ~call.matched
    /\ \E r \in {generate_match([grid |-> call.grid, state |-> call.state],
                                 call.byte, call.x, call.y)} :
           call' = [call EXCEPT !.grid = r.grid, !.state = r.state, !.matched = TRUE]
    /\ UNCHANGED gameVars
    /\ UNCHANGED fillVars

NextGen ==
    \/ GenerateCell
    \/ MatchByte

SpecGen == InitGen /\ [][NextGen]_vars

\* ----------------------------------------------------------- Grid::weight
\* The state of a weight call: the visited array, whether an index was out
\* of bounds (a panic), whether a u8 sum overflowed, and the u8 returned.
NoWeight == [visited |-> NoneVisited, panic |-> FALSE, overflow |-> FALSE, ret |-> 0]

RECURSIVE grid_weight(_, _, _)

\* "weight += self.weight(new_position, visited)" when there is a new
\* position; ws.ret is the sum so far.
add_weight(g, ws, new_position) ==
    IF new_position = None THEN ws
    ELSE CHOOSE r \in
        {[w EXCEPT !.ret = (ws.ret + w.ret) % (U8Max + 1),
                   !.overflow = w.overflow \/ (ws.ret + w.ret > U8Max)] :
            w \in {grid_weight(g, ws, new_position[1])}} : TRUE

\* The loop of an AllDirection: "let mut weight = 1" and the four
\* neighbours Left, Up, Right, Down.
weight_all(g, ws, position) ==
    CHOOSE r \in
        {add_weight(g, w3, n4) : n4 \in {move(position, DirectionSeq[4])}, w3 \in
        {add_weight(g, w2, n3) : n3 \in {move(position, DirectionSeq[3])}, w2 \in
        {add_weight(g, w1, n2) : n2 \in {move(position, DirectionSeq[2])}, w1 \in
        {add_weight(g, [ws EXCEPT !.ret = 1], n1) :
            n1 \in {move(position, DirectionSeq[1])}}}}} : TRUE

\* Grid::weight. visited is indexed by the position before the grid is
\* asked for the node: a position off the board is an index out of bounds.
grid_weight(g, ws, position) ==
    IF ws.panic THEN ws
    ELSE IF ~(position.y < Height /\ position.x < Width) THEN [ws EXCEPT !.panic = TRUE]
    ELSE IF ws.visited[position.y][position.x] THEN [ws EXCEPT !.ret = 0]
    ELSE IF get(g, position) = None THEN [ws EXCEPT !.visited[position.y][position.x] = TRUE, !.ret = 0]
    ELSE CHOOSE r \in
        {IF is_hidden(node) THEN [v EXCEPT !.ret = 0]
         ELSE IF direction(node) # None
         THEN CHOOSE q \in {add_weight(g, [v EXCEPT !.ret = 1], new_position) :
                               new_position \in {move(position, direction(node)[1])}} : TRUE
         ELSE IF all_directions(node) THEN weight_all(g, v, position)
         ELSE [v EXCEPT !.ret = 0] :
            node \in {get(g, position)[1]},
            v \in {[ws EXCEPT !.visited[position.y][position.x] = TRUE]}} : TRUE

\* Game::weight: Grid::weight with a fresh visited array.
game_weight(game, position) == grid_weight(game.grid, NoWeight, position)

\* ------------------------------------------- screen::Game::run, other colours
\* The selection of run for a colour that is not the player's, before its
\* loops: "let mut best_position = None; let mut best_weight = None;".
NoSelection(player_color) ==
    [op |-> "select", player_color |-> player_color, x |-> 0, y |-> 0,
     best_position |-> None, best_weight |-> None, panic |-> FALSE]

\* The weight the selection gives the node at (x, y) when it has no best
\* weight yet: 0 when there is no new position or the node there is of the
\* turn's colour, Game::weight of the new position otherwise. The unwrap of
\* the node at the new position fails when the position is off the board.
first_weight(game, new_pos) ==
    IF new_pos = None THEN [panic |-> FALSE, ret |-> 0]
    ELSE IF get(game.grid, new_pos[1]) = None THEN [panic |-> TRUE, ret |-> 0]
    ELSE IF is_color(get(game.grid, new_pos[1])[1], game.turn_color)
    THEN [panic |-> FALSE, ret |-> 0]
    ELSE CHOOSE r \in {[panic |-> w.panic, ret |-> w.ret] :
                          w \in {game_weight(game, new_pos[1])}} : TRUE

\* The body of the loops of the selection for one x and y.
select_cell(game, sel, x, y) ==
    CHOOSE r \in
        {IF ~is_color(node, game.turn_color) \/ direction(node) = None THEN sel
         ELSE IF sel.best_weight # None
         THEN IF new_pos = None THEN sel
              ELSE IF get(game.grid, new_pos[1]) = None THEN [sel EXCEPT !.panic = TRUE]
              ELSE IF is_color(get(game.grid, new_pos[1])[1], game.turn_color) THEN sel
              ELSE CHOOSE q \in
                       {IF w.panic THEN [sel EXCEPT !.panic = TRUE]
                        ELSE IF w.ret > sel.best_weight[1]
                        THEN [sel EXCEPT !.best_weight = Some(w.ret),
                                         !.best_position = Some(<<x, y>>)]
                        ELSE sel :
                        w \in {game_weight(game, new_pos[1])}} : TRUE
         ELSE CHOOSE q \in
                  {IF w.panic THEN [sel EXCEPT !.panic = TRUE]
                   ELSE [sel EXCEPT !.best_weight = Some(w.ret),
                                    !.best_position = Some(<<x, y>>)] :
                   w \in {first_weight(game, new_pos)}} : TRUE :
         node \in {get(game.grid, Position(x, y))[1]},
         new_pos \in {IF direction(get(game.grid, Position(x, y))[1]) = None THEN None
                      ELSE move(Position(x, y),
                                clockwise(direction(get(game.grid, Position(x, y))[1])[1]))}} : TRUE

\* run is called with the turn at a colour that is not the player's, and
\* the player is not eliminated: the selection begins.
AiStart(player_color) ==
    /\ turns < MaxTurns
    /\ result.tag # "Panic"
    /\ call.op # "select"
    /\ ~is_eliminated(color_counts, player_color)
    /\ turn_color # player_color
    /\ call' = NoSelection(player_color)
    /\ UNCHANGED gameVars
    /\ UNCHANGED fillVars

\* One iteration of "for x in 0..16 { for y in 0..16".
AiScan ==
    /\ call.op = "select"
    /\ ~call.panic
    /\ call.x < Width
    /\ \E r \in {select_cell(Game, call, call.x, call.y)} :
           call' = [r EXCEPT !.x = IF call.y = Height - 1 THEN call.x + 1 ELSE call.x,
                             !.y = IF call.y = Height - 1 THEN 0 ELSE call.y + 1]
    /\ UNCHANGED gameVars
    /\ UNCHANGED fillVars

\* "let (x, y) = best_position.unwrap(); self.state.execute_turn(...).unwrap();"
\* A failed unwrap, like a panic of execute_turn, ends the program.
AiSubmit ==
    /\ call.op = "select"
    /\ ~call.panic
    /\ call.x = Width
    /\ IF call.best_position = None
       THEN /\ call' = [call EXCEPT !.op = "selected", !.panic = TRUE]
            /\ UNCHANGED gameVars
       ELSE \E r \in {execute_turn(Game, Position(call.best_position[1][1],
                                                   call.best_position[1][2]))} :
                /\ grid' = r.game.grid
                /\ color_counts' = r.game.color_counts
                /\ turn_color' = r.game.turn_color
                /\ result' = r.result
                /\ decided' = IF decided = None /\ r.result.tag = "Ok"
                              THEN r.result.winner ELSE decided
                /\ last_turn' = Position(call.best_position[1][1], call.best_position[1][2])
                /\ prev' = Game
                /\ turns' = turns + 1
                /\ call' = [call EXCEPT !.op = "selected", !.panic = r.result.tag # "Ok"]
    /\ UNCHANGED fillVars

\* A call of Game::weight at a position of the board.
CallWeight(p) ==
    /\ call.op # "select"
    /\ result.tag # "Panic"
    /\ \E w \in {game_weight(Game, p)} :
           call' = [op |-> "weight", position |-> p, panic |-> w.panic, ret |-> w.ret]
    /\ UNCHANGED gameVars
    /\ UNCHANGED fillVars

NextAi ==
    \/ \E player_color \in Colors : AiStart(player_color)
    \/ AiScan
    \/ AiSubmit
    \/ \E p \in Cells : CallWeight(p)

SpecAi == Init /\ [][NextAi]_vars

\* ===================================================== cursor navigation
\* Position::move_saturating with the test against max left out.
move_saturating_unchecked(p, d, max) ==
    IF move(p, d) # None THEN move(p, d)[1] ELSE p

\* Position::move_saturating: the moved position when move gives one and it
\* is not beyond max, self otherwise.
move_saturating(p, d, max) ==
    IF move(p, d) # None
    THEN IF move(p, d)[1].x <= max.x /\ move(p, d)[1].y <= max.y
         THEN move(p, d)[1]
         ELSE p
    ELSE p

MAX_POSITION == Position(15, 15)

\* The keys of one frame that were not held in the frame before, handled
\* in the order RIGHT, UP, LEFT, DOWN.
press(cursor, pressed, d) ==
    IF d \in pressed THEN move_saturating(cursor, d, MAX_POSITION) ELSE cursor

run_keys(cursor, pressed) ==
    press(press(press(press(cursor, pressed, "Right"), pressed, "Up"),
                pressed, "Left"), pressed, "Down")

\* No call of move_saturating made yet.
NoMoveSaturating == [op |-> "move_saturating", position |-> Position(0, 0),
                     direction |-> "Left", max |-> Position(0, 0),
                     ret |-> Position(0, 0)]

\* The game screen as the title screen builds it: the cursor at (0,0), no
\* key held, the player Red and Red to move.
NewScreen == [op |-> "cursor", cursor |-> Position(0, 0), prev_keys |-> {},
              before |-> Position(0, 0), pressed |-> {}]

\* Either the game screen at its start, or the function on its own.
InitCursor ==
    /\ grid = SnakeGrid
    /\ color_counts = build(SnakeGrid, "Red").color_counts
    /\ turn_color = "Red"
    /\ result = NoResult
    /\ last_turn = Position(0, 0)
    /\ prev = build(SnakeGrid, "Red")
    /\ turns = 0
    /\ decided = None
    /\ NoFill
    /\ call \in {NewScreen, NoMoveSaturating}

\* One frame of Game::run in the player's turn: the keys read, the cursor
\* moved for each newly pressed direction, prev_keys updated.
RunFrame(keys) ==
    /\ call.op = "cursor"
    /\ turn_color = "Red"
    /\ call' = [op |-> "cursor",
                cursor |-> run_keys(call.cursor, keys \ call.prev_keys),
                prev_keys |-> keys,
                before |-> call.cursor,
                pressed |-> keys \ call.prev_keys]
    /\ UNCHANGED gameVars
    /\ UNCHANGED fillVars

\* The positions within (0,0)..max that lie on or next to its edges, for
\* the maxima of the game screen, of the u8 range and of two smaller boxes.
MaxPositions == {MAX_POSITION, Position(U8Max, U8Max), Position(0, 0), Position(3, 7)}
EdgeCoordinates(m) == {0, 1, m - 1, m} \cap (0 .. m)
EdgePositions(max) ==
    {Position(x, y) : x \in EdgeCoordinates(max.x), y \in EdgeCoordinates(max.y)}

CallMoveSaturating(p, d, max) ==
    /\ call.op = "move_saturating"
    /\ call' = [op |-> "move_saturating", position |-> p, direction |-> d,
                max |-> max, ret |-> move_saturating(p, d, max)]
    /\ UNCHANGED gameVars
    /\ UNCHANGED fillVars

NextCursor ==
    \/ \E keys \in SUBSET Directions : RunFrame(keys)
    \/ \E max \in MaxPositions, d \in Directions :
           \E p \in EdgePositions(max) : CallMoveSaturating(p, d, max)

SpecCursor == InitCursor /\ [][NextCursor]_vars


\* ============================================ Grid::weight, step by step
\* Grid::weight on the 16 x 16 board, one invocation step at a time. The
\* return type is u8: an addition that does not fit panics in a build with
\* overflow checks and wraps in a build without them.
BoardCoordinates == 0 .. (BoardSize - 1)

board_get(g, p) == IF p.y < BoardSize /\ p.x < BoardSize THEN Some(g[p.y][p.x]) ELSE None

BoardNoneVisited == [y \in BoardCoordinates |-> [x \in BoardCoordinates |-> FALSE]]

\* a + b in u8.
add_u8(a, b, overflow_checks) ==
    IF a + b > U8Max
    THEN [value |-> (a + b) % (U8Max + 1), panic |-> overflow_checks]
    ELSE [value |-> a + b, panic |-> FALSE]

\* One path through all 256 cells: even rows run right, odd rows run left,
\* the last cell of a row points down, and the last cell of the path, at
\* (0,15), points Left off the board.
ChainBoard ==
    [y \in BoardCoordinates |-> [x \in BoardCoordinates |->
        Arrow(None,
              IF y % 2 = 0
              THEN (IF x = BoardSize - 1 THEN "Down" ELSE "Right")
              ELSE (IF x = 0
                    THEN (IF y = BoardSize - 1 THEN "Left" ELSE "Down")
                    ELSE "Left"))]]

\* The same path with a junction on it, at (5,5). The junction sends on
\* along the path to its left and back into the path above it.
JunctionPosition == Position(5, 5)
JunctionBoard ==
    [ChainBoard EXCEPT ![JunctionPosition.y][JunctionPosition.x] = AllDirection(Some("Red"))]

WeightBoards == {ChainBoard, JunctionBoard}

\* The places on the path a call starts at: its first cells, the start of
\* the second row, a cell between the cell above the junction and the
\* junction, the junction, and the last cells.
WeightStarts ==
    {Position(0, 0), Position(1, 0), Position(2, 0), Position(BoardSize - 1, 1),
     Position(10, 5), JunctionPosition,
     Position(1, BoardSize - 1), Position(0, BoardSize - 1)}

\* An invocation of Grid::weight: its position, how far it got ("enter":
\* at its first statement, "arrow": waiting for the weight of the cell it
\* points to, "all": in the loop of an AllDirection, "add": waiting for the
\* weight of a neighbour in that loop), the loop index and the local weight.
WeightFrame(p) == [position |-> p, pc |-> "enter", i |-> 1, weight |-> 0]

\* No call of Game::weight made yet.
NoWeighing(b, overflow_checks) ==
    [op |-> "grid_weight", board |-> b, overflow_checks |-> overflow_checks,
     start |-> Position(0, 0), stack |-> <<>>, visited |-> BoardNoneVisited,
     ret |-> 0, panic |-> FALSE, started |-> FALSE]

InitWeight ==
    /\ grid = SnakeGrid
    /\ color_counts = build(SnakeGrid, "Red").color_counts
    /\ turn_color = "Red"
    /\ result = NoResult
    /\ last_turn = Position(0, 0)
    /\ prev = build(SnakeGrid, "Red")
    /\ turns = 0
    /\ decided = None
    /\ NoFill
    /\ \E b \in WeightBoards, overflow_checks \in BOOLEAN :
           call = NoWeighing(b, overflow_checks)

\* The invocation on top returns v to its caller.
WeightReturn(c, v) == [c EXCEPT !.stack = Pop(c.stack), !.ret = v]

\* Game::weight: Grid::weight with a fresh visited array.
WeightStart(p) ==
    /\ call.stack = <<>>
    /\ ~call.panic
    /\ call' = [call EXCEPT !.start = p, !.stack = <<WeightFrame(p)>>,
                            !.visited = BoardNoneVisited, !.ret = 0, !.started = TRUE]
    /\ UNCHANGED gameVars
    /\ UNCHANGED fillVars

\* Grid::weight from its first statement to its first call of itself or
\* its return. visited is indexed before the grid is asked for the node.
WeightEnter ==
    /\ call.stack # <<>>
    /\ ~call.panic
    /\ call.stack[Len(call.stack)].pc = "enter"
    /\ \E f \in {call.stack[Len(call.stack)]} :
       \E position \in {f.position} :
           IF ~(position.y < BoardSize /\ position.x < BoardSize)
           THEN call' = [call EXCEPT !.panic = TRUE]
           ELSE IF call.visited[position.y][position.x]
           THEN call' = WeightReturn(call, 0)
           ELSE \E c \in {[call EXCEPT !.visited[position.y][position.x] = TRUE]} :
                \E node \in {board_get(call.board, position)[1]} :
                    IF is_hidden(node) THEN call' = WeightReturn(c, 0)
                    ELSE IF direction(node) # None
                    THEN \E new_position \in {move(position, direction(node)[1])} :
                             IF new_position # None
                             THEN call' = [c EXCEPT !.stack =
                                              Append(SetTop(c.stack, [f EXCEPT !.pc = "arrow"]),
                                                     WeightFrame(new_position[1]))]
                             ELSE call' = WeightReturn(c, 1)
                    ELSE IF all_directions(node)
                    THEN call' = [c EXCEPT !.stack =
                                     SetTop(c.stack, [f EXCEPT !.pc = "all", !.weight = 1])]
                    ELSE call' = WeightReturn(c, 0)
    /\ UNCHANGED gameVars
    /\ UNCHANGED fillVars

\* "1 + self.weight(new_position, visited)" once the call has returned.
WeightArrow ==
    /\ call.stack # <<>>
    /\ ~call.panic
    /\ call.stack[Len(call.stack)].pc = "arrow"
    /\ \E s \in {add_u8(1, call.ret, call.overflow_checks)} :
           IF s.panic
           THEN call' = [call EXCEPT !.panic = TRUE]
           ELSE call' = WeightReturn(call, s.value)
    /\ UNCHANGED gameVars
    /\ UNCHANGED fillVars

\* One round of the loop of an AllDirection up to its call, or the end of
\* the loop.
WeightAll ==
    /\ call.stack # <<>>
    /\ ~call.panic
    /\ call.stack[Len(call.stack)].pc = "all"
    /\ \E f \in {call.stack[Len(call.stack)]} :
           IF f.i > 4
           THEN call' = WeightReturn(call, f.weight)
           ELSE \E new_position \in {move(f.position, DirectionSeq[f.i])} :
                    IF new_position # None
                    THEN call' = [call EXCEPT !.stack =
                                     Append(SetTop(call.stack, [f EXCEPT !.pc = "add"]),
                                            WeightFrame(new_position[1]))]
                    ELSE call' = [call EXCEPT !.stack =
                                     SetTop(call.stack, [f EXCEPT !.i = @ + 1])]
    /\ UNCHANGED gameVars
    /\ UNCHANGED fillVars

\* "weight += self.weight(new_position, visited)" once the call has
\* returned.
WeightAdd ==
    /\ call.stack # <<>>
    /\ ~call.panic
    /\ call.stack[Len(call.stack)].pc = "add"
    /\ \E f \in {call.stack[Len(call.stack)]} :
       \E s \in {add_u8(f.weight, call.ret, call.overflow_checks)} :
           IF s.panic
           THEN call' = [call EXCEPT !.panic = TRUE]
           ELSE call' = [call EXCEPT !.stack =
                            SetTop(call.stack,
                                   [f EXCEPT !.pc = "all", !.i = @ + 1, !.weight = s.value])]
    /\ UNCHANGED gameVars
    /\ UNCHANGED fillVars

NextWeight ==
    \/ \E p \in WeightStarts : WeightStart(p)
    \/ WeightEnter
    \/ WeightArrow
    \/ WeightAll
    \/ WeightAdd

SpecWeight == InitWeight /\ [][NextWeight]_vars

\* ------------------------------------------ the screen after a player turn
\* What Game::run makes of the result of the player's own execute_turn: the
\* game over screen with Win for any Ok(Some(_)), no change of screen
\* otherwise.
player_turn_screen(r) ==
    IF r.tag = "Ok" /\ r.winner # None THEN Some("Win") ELSE None

\* ------------------------------------------------- a run of several turns
\* Longer games on fewer boards: execute_turn called up to MaxRounds times,
\* with the movers of the calls that returned Ok and the colours that had a
\* counter after each of them, in order, and those that had one at the start.
WallGrid == [y \in Rows |-> [x \in Cols |-> Wall]]

\* Four Arrows, one of each colour, with Walls between them: no Arrow can
\* reach another.
QuietGrid ==
    [WallGrid EXCEPT ![0][0] = Arrow(Some("Red"), "Up"),
                     ![0][2] = Arrow(Some("Blue"), "Up"),
                     ![1][1] = Arrow(Some("Yellow"), "Up"),
                     ![1][3] = Arrow(Some("Green"), "Up")]

\* The same with the Blue Arrow next to the Red one, where the Red Arrow
\* points after one rotation.
CaptureGrid ==
    [WallGrid EXCEPT ![0][0] = Arrow(Some("Red"), "Up"),
                     ![0][1] = Arrow(Some("Blue"), "Up"),
                     ![0][3] = Arrow(Some("Yellow"), "Up"),
                     ![1][2] = Arrow(Some("Green"), "Up")]

RoundGrids ==
    {MainGrid, SnakeGrid, QuietGrid, CaptureGrid}
        \cup {SampleGrid(seed) : seed \in 1 .. MaxRoundSeed}

InitRounds ==
    /\ \E g \in RoundGrids, tc \in Colors :
           /\ grid = g
           /\ color_counts = build(g, tc).color_counts
           /\ turn_color = tc
           /\ prev = build(g, tc)
           /\ call = [op |-> "rounds", movers |-> <<>>, alive |-> <<>>,
                      start |-> {c \in Colors :
                                    ~is_eliminated(build(g, tc).color_counts, c)}]
    /\ result = NoResult
    /\ last_turn = Position(0, 0)
    /\ turns = 0
    /\ decided = None
    /\ NoFill

PlayTurn(p) ==
    /\ turns < MaxRounds
    /\ result.tag # "Panic"
    /\ \E r \in {execute_turn(Game, p)} :
           /\ grid' = r.game.grid
           /\ color_counts' = r.game.color_counts
           /\ turn_color' = r.game.turn_color
           /\ result' = r.result
           /\ decided' = IF decided = None /\ r.result.tag = "Ok"
                         THEN r.result.winner
                         ELSE decided
           /\ call' = IF r.result.tag = "Ok"
                      THEN [call EXCEPT
                               !.movers = Append(@, turn_color),
                               !.alive = Append(@, {c \in Colors :
                                                       ~is_eliminated(r.game.color_counts, c)})]
                      ELSE call
    /\ last_turn' = p
    /\ prev' = Game
    /\ turns' = turns + 1
    /\ UNCHANGED fillVars

NextRounds == \E p \in TurnPositions : PlayTurn(p)

SpecRounds == InitRounds /\ [][NextRounds]_vars

\* ------------------------------------ ScrollAccelerator::scroll_to_position
\* u16 addition and subtraction, modulo 2^16.
add_u16(a, b) == (a + b) % (U16Max + 1)
sub_u16(a, b) == (a + (U16Max + 1) - b) % (U16Max + 1)

\* "(position.x as u16 * 8 + 76, position.y as u16 * 12 + 86)", a pair.
position_to_pixel_location(position) ==
    <<add_u16((position.x * 8) % (U16Max + 1), 76),
      add_u16((position.y * 12) % (U16Max + 1), 86)>>

\* One axis that steps by the velocity at any distance.
scroll_axis_by_velocity(p, t, velocity) ==
    IF p > t THEN sub_u16(p, velocity)
    ELSE IF p < t THEN add_u16(p, velocity)
    ELSE p

\* One axis of scroll_to_position, "let x = if ..." and "let y = if ...":
\* the velocity towards the target while that far away, one pixel when
\* nearer, nothing at the target.
scroll_axis(p, t, velocity) ==
    IF p > t
    THEN IF sub_u16(p, t) >= velocity THEN sub_u16(p, velocity) ELSE sub_u16(p, 1)
    ELSE IF p < t
    THEN IF sub_u16(t, p) >= velocity THEN add_u16(p, velocity) ELSE add_u16(p, 1)
    ELSE p

\* scroll_to_position on the accelerator's position: the new position and
\* the value returned, "target == self.position".
scroll_to_position(self, position, velocity) ==
    LET target == position_to_pixel_location(position)
        x == scroll_axis(self[1], target[1], velocity)
        y == scroll_axis(self[2], target[2], velocity)
    IN  [position |-> <<x, y>>, ret |-> (target = <<x, y>>)]

\* The cells a bot turn scrolls to, and the positions the accelerator is at
\* when the turn starts: anywhere the player's scrolling, one pixel a frame,
\* may have left it, and the ends of the range of the scroll registers.
ScrollTargets == {Position(x, y) : x \in {0, MaxScrollCell}, y \in {0, MaxScrollCell}}
ScrollStartsX == {0, 511} \cup {76 + k : k \in 0 .. MaxScrollOffset}
ScrollStartsY == {0, 511} \cup {86 + k : k \in 0 .. MaxScrollOffset}

\* The wait loop of a bot turn, with the position it started from: "loop {
\* let completed =
\* scroll_to_position(Position { x, y }, 2); ... if completed { break; } }".
InitScroll ==
    /\ grid = SnakeGrid
    /\ color_counts = build(SnakeGrid, "Red").color_counts
    /\ turn_color = "Red"
    /\ result = NoResult
    /\ last_turn = Position(0, 0)
    /\ prev = build(SnakeGrid, "Red")
    /\ turns = 0
    /\ decided = None
    /\ NoFill
    /\ \E x \in ScrollStartsX, y \in ScrollStartsY, t \in ScrollTargets :
           call = [op |-> "scroll", start |-> <<x, y>>, position |-> <<x, y>>,
                   target |-> t, velocity |-> 2, completed |-> FALSE]

ScrollToPosition ==
    /\ call.op = "scroll"
    /\ ~call.completed
    /\ \E r \in {scroll_to_position(call.position, call.target, call.velocity)} :
           call' = [call EXCEPT !.position = r.position, !.completed = r.ret]
    /\ UNCHANGED gameVars
    /\ UNCHANGED fillVars

NextScroll == ScrollToPosition

SpecScroll == InitScroll /\ [][NextScroll]_vars

\* The loop goes on while it has not broken.
FairSpecScroll == SpecScroll /\ WF_vars(ScrollToPosition)

\* ------------------------------------------------------ KeyInput::contains
\* "^" and "&" on u16, the low n bits first.
RECURSIVE bitxor(_, _, _)
bitxor(a, b, n) ==
    IF n = 0 THEN 0 ELSE ((a + b) % 2) + 2 * bitxor(a \div 2, b \div 2, n - 1)

RECURSIVE bitand(_, _, _)
bitand(a, b, n) ==
    IF n = 0 THEN 0 ELSE ((a % 2) * (b % 2)) + 2 * bitand(a \div 2, b \div 2, n - 1)

\* "Self(0b0000_0011_1111_1111)": no key pressed.
KEY_NONE == 1023

\* The constants of the ten keys, A, B, SELECT, START, RIGHT, LEFT, UP,
\* DOWN, R, L: NONE with the bit of the key cleared.
KeyConstants == {1022, 1021, 1019, 1015, 1007, 991, 959, 895, 767, 511}

\* A test of the bits as they are, for a register with a set bit for a
\* pressed key.
contains_active_high(self, other) == bitand(self, other, 16) = other

\* "(Self::NONE.0 ^ self.0) & (Self::NONE.0 ^ other.0) == (Self::NONE.0 ^
\* other.0)"
contains(self, other) ==
    bitand(bitxor(KEY_NONE, self, 16), bitxor(KEY_NONE, other, 16), 16)
        = bitxor(KEY_NONE, other, 16)

\* The value of the register with the keys of a set pressed: bit k is
\* clear for a pressed key k, the six bits above the keys read as zero.
RECURSIVE KeyValue(_)
KeyValue(S) ==
    IF S = {} THEN KEY_NONE
    ELSE LET k == CHOOSE k \in S : TRUE
         IN  KeyValue(S \ {k}) - (2 ^ k)

\* The values contains is tried on: up to MaxPressed keys pressed, and all
\* ten.
KeyValues ==
    {KeyValue(S) : S \in {T \in SUBSET (0 .. 9) : Cardinality(T) <= MaxPressed}}
        \cup {KeyValue(0 .. 9)}

InitKeys ==
    /\ grid = SnakeGrid
    /\ color_counts = build(SnakeGrid, "Red").color_counts
    /\ turn_color = "Red"
    /\ result = NoResult
    /\ last_turn = Position(0, 0)
    /\ prev = build(SnakeGrid, "Red")
    /\ turns = 0
    /\ decided = None
    /\ NoFill
    /\ \E a \in KeyValues, b \in KeyValues :
           call = [op |-> "contains", self |-> a, other |-> b, ret |-> None]

\* One call of contains.
Contains ==
    /\ call.op = "contains"
    /\ call.ret = None
    /\ call' = [call EXCEPT !.ret = Some(contains(call.self, call.other))]
    /\ UNCHANGED gameVars
    /\ UNCHANGED fillVars

NextKeys == Contains

SpecKeys == InitKeys /\ [][NextKeys]_vars

\* ================================================================ claims
\* The mover of the last call, and whether the last call was let through.
Mover == prev.turn_color
Called == result.tag # "None"
Returned == result.tag = "Ok"

\* The node of a board at a cell.
At(g, p) == g[p.y][p.x]

\* A position a colour may rotate: on the board, holding a node of its colour.
Owned(g, c, p) ==
    /\ p \in Cells
    /\ At(g, p).kind \in {"Arrow", "AllDirection", "SuperArrow"}
    /\ At(g, p).alignment = Some(c)

\* The colours that have a counter.
Alive(cc) == {c \in Colors : cc[c] # None}

\* ---------------------------------------------------------------- C1
\* C1: in every reachable state, for each colour the stored counter equals
\* the number of cells aligned to that colour, and the counter is None
\* exactly when that number is zero.
C1_CountInvariant ==
    \A c \in Colors :
        /\ color_counts[c] = None <=> CountOf(grid, c) = 0
        /\ color_counts[c] # None => color_counts[c][1] = CountOf(grid, c)

\* A turn that took cells from another colour and eliminated a colour.
C1_Witness ==
    /\ Returned
    /\ \E c \in Colors \ {Mover} :
           /\ CountOf(prev.grid, c) > CountOf(grid, c)
           /\ CountOf(grid, c) > 0
    /\ \E c \in Colors : CountOf(prev.grid, c) > 0 /\ color_counts[c] = None

\* ---------------------------------------------------------------- C2
\* C2: a Turn whose position is off the board or whose node is not aligned
\* to turn_color gets Err(InvalidRotationPosition), and grid, counters and
\* turn_color are as they were before the call.
C2_OwnershipGate ==
    (Called /\ ~Owned(prev.grid, Mover, last_turn)) =>
        /\ result = Err
        /\ Game = prev

\* A rejected turn on a SuperArrow of another colour, which a call let
\* through would have rotated.
C2_Witness ==
    /\ result = Err
    /\ last_turn \in Cells
    /\ At(prev.grid, last_turn).alignment # None
    /\ At(prev.grid, last_turn).alignment # Some(Mover)
    /\ At(prev.grid, last_turn).kind = "SuperArrow"

\* ---------------------------------------------------------------- C3
\* C3: a successful execute_turn returns Ok(Some(c)) if and only if c is the
\* only colour with a non-zero count after the fill, and Ok(None) otherwise.
C3_WinDetection ==
    Returned =>
        /\ \A c \in Colors : result.winner = Some(c) <=> Alive(color_counts) = {c}
        /\ Cardinality(Alive(color_counts)) # 1 => result.winner = None

\* One turn captured the last cells of two other colours and won.
C3_Witness ==
    /\ Returned
    /\ result.winner = Some(Mover)
    /\ Cardinality(Alive(prev.color_counts)) >= 3

\* ---------------------------------------------------------------- C4
ColorIndex(c) == CHOOSE i \in 1 .. 4 : ColorSeq[i] = c
After(c, k) == ColorSeq[((ColorIndex(c) - 1 + k) % 4) + 1]

\* The first colour after m in the cyclic order that has a counter, or m.
NextAlive(m, cc) ==
    IF \E k \in 1 .. 3 : cc[After(m, k)] # None
    THEN After(m, CHOOSE k \in 1 .. 3 :
                      /\ cc[After(m, k)] # None
                      /\ \A j \in 1 .. (k - 1) : cc[After(m, j)] = None)
    ELSE m

\* C4: after a successful execute_turn by colour m, turn_color is the first
\* colour after m in the order Red, Blue, Yellow, Green, Red that has a
\* non-zero count after the fill of that turn; with no such colour it is m.
C4_TurnAdvance ==
    Returned => turn_color = NextAlive(Mover, color_counts)

\* The colour next in order was eliminated by this very turn and skipped.
C4_Witness ==
    /\ Returned
    /\ prev.color_counts[After(Mover, 1)] # None
    /\ color_counts[After(Mover, 1)] = None
    /\ turn_color \notin {Mover, After(Mover, 1)}
\* ---------------------------------------------------------------- C5
\* The invocations of fill on the stack that got past the visited test.
Processing == {k \in 1 .. Len(stack) : stack[k].pc # "enter"}

FillBounded ==
    /\ \A p \in Cells : processed[p] <= 1
    /\ Cardinality(Processing) <= NumCells
    /\ Len(stack) <= NumCells + 1

\* The two runs of execute_turn agree: when the stepwise call has returned,
\* the Game and the result are those of execute_turn.
FillStepsAgree ==
    (phase = "idle" /\ Called) =>
        \A r \in {execute_turn(prev, last_turn)} : Game = r.game /\ result = r.result

Step(p, d) ==
    CASE d = "Left" -> Position(p.x - 1, p.y)
      [] d = "Up" -> Position(p.x, p.y - 1)
      [] d = "Right" -> Position(p.x + 1, p.y)
      [] d = "Down" -> Position(p.x, p.y + 1)

\* The board the fill of the last turn started on: the directions of the
\* grid now (fill changes none), the alignments of the grid before the call
\* (rotation and beam change none).
FillBoard ==
    [y \in Rows |-> [x \in Cols |->
        [grid[y][x] EXCEPT !.alignment = prev.grid[y][x].alignment]]]

IsColourable(n) == n.kind \in {"Arrow", "AllDirection", "SuperArrow"}
IsHidden(n) == n.kind \in {"AllDirection", "SuperArrow"} /\ n.alignment = None
HasDirection(n) == n.kind \in {"Arrow", "SuperArrow"}

\* (a) the cells on the board a cell sends to.
SendsTo(b, c) ==
    IF HasDirection(At(b, c)) THEN {Step(c, At(b, c).direction[1])} \cap Cells
    ELSE IF At(b, c).kind = "AllDirection" THEN {Step(c, d) : d \in Directions} \cap Cells
    ELSE {}

\* (b) the neighbours on the board that are not hidden and that point at the
\* cell or are an AllDirection.
PulledBy(b, c) ==
    {n \in {Step(c, d) : d \in Directions} \cap Cells :
        /\ ~IsHidden(At(b, n))
        /\ \/ HasDirection(At(b, n)) /\ Step(n, At(b, n).direction[1]) = c
           \/ At(b, n).kind = "AllDirection"}

Grow(b, S) ==
    S \cup UNION {SendsTo(b, c) \cup PulledBy(b, c) : c \in {q \in S : IsColourable(At(b, q))}}

RECURSIVE Least(_, _)
Least(b, S) == Only({IF T = S THEN S ELSE Least(b, T) : T \in {Grow(b, S)}})

\* The least set holding the rotated cell and closed under (a) and (b).
Component == Only({Least(b, {last_turn}) : b \in {FillBoard}})

AlignedTo(g, c) == {p \in Cells : At(g, p).alignment = Some(c)}

\* C6: after a successful execute_turn by colour m at position p, the cells
\* aligned to m are the cells that were m before plus the colourable cells of
\* the least set S that holds p and is closed under (a) and (b); every cell
\* outside S keeps its alignment.
C6_FillIsComponent ==
    Returned =>
        \A S \in {Component} :
            /\ AlignedTo(grid, Mover) =
                   AlignedTo(prev.grid, Mover) \cup {p \in S : IsColourable(At(grid, p))}
            /\ \A p \in Cells \ S : At(grid, p).alignment = At(prev.grid, p).alignment

\* A fill that reached a cell only through the incoming rule, coloured a
\* hidden node and stopped at a cell that is not colourable.
C6_Witness ==
    /\ Returned
    /\ \E p \in Component : ~IsColourable(At(grid, p))
    /\ \E p \in Component : IsHidden(At(prev.grid, p))
    /\ \E p \in Component \ {last_turn} :
           \A q \in Component : p \notin SendsTo(FillBoard, q)
    /\ Cells \ Component # {}

\* ---------------------------------------------------------------- C7
\* C7: InvalidRotationPosition is the only failure of execute_turn: a call on
\* a position on the board whose node is aligned to turn_color returns Ok,
\* whatever the node kind and wherever a SuperArrow's beam runs.
C7_OnlyFailure ==
    (Called /\ Owned(prev.grid, Mover, last_turn)) => Returned

\* ---------------------------------------------------------------- C8
Successor(d) ==
    CASE d = "Left" -> "Up" [] d = "Up" -> "Right" [] d = "Right" -> "Down" [] d = "Down" -> "Left"

RotatedSuperArrow ==
    /\ Called
    /\ Owned(prev.grid, Mover, last_turn)
    /\ At(prev.grid, last_turn).kind = "SuperArrow"

BeamDirection == Successor(At(prev.grid, last_turn).direction[1])

\* The k-th cell beyond the rotated one along the beam.
Beyond(k) ==
    CASE BeamDirection = "Left" -> Position(last_turn.x - k, last_turn.y)
      [] BeamDirection = "Up" -> Position(last_turn.x, last_turn.y - k)
      [] BeamDirection = "Right" -> Position(last_turn.x + k, last_turn.y)
      [] BeamDirection = "Down" -> Position(last_turn.x, last_turn.y + k)

\* The cells strictly beyond the rotated one and before the first Wall.
BeamCells ==
    {p \in Cells : \E k \in 1 .. (Width + Height) :
        /\ p = Beyond(k)
        /\ \A j \in 1 .. k : At(prev.grid, Beyond(j)).kind # "Wall"}

BeamEffect ==
    /\ \A p \in BeamCells :
           HasDirection(At(grid, p)) => At(grid, p).direction = Some(BeamDirection)
    /\ \A p \in Cells \ (BeamCells \cup {last_turn}) :
           At(grid, p).direction = At(prev.grid, p).direction
    /\ \A p \in Cells :
           At(rotate_and_beam(prev.grid, Mover, last_turn).grid, p).alignment
               = At(prev.grid, p).alignment

\* C8: when execute_turn rotates an aligned SuperArrow to direction d, every
\* Arrow or SuperArrow beyond it along d and before the first Wall (or the
\* edge) has direction d afterwards, for each of the four d; the Wall, the
\* cells beyond it and the cells off the line keep their direction; the beam
\* changes no alignment.
C8_Beam == RotatedSuperArrow => (Returned /\ BeamEffect)

\* The same for the calls that return, and for the board as the panic of
\* C7 leaves it.
C8_BeamWhenReturned == RotatedSuperArrow => BeamEffect

\* ---------------------------------------------------------------- C9
LeavesBoard(p, d) ==
    \/ d = "Left" /\ p.x = 0
    \/ d = "Up" /\ p.y = 0
    \/ d = "Right" /\ p.x = BoardSize - 1
    \/ d = "Down" /\ p.y = BoardSize - 1

\* C9: on the 16 x 16 board, move returns None exactly when the step would
\* leave the board and the adjacent cell otherwise.
C9_MoveOnBoard ==
    call.op = "move" =>
        /\ call.ret = None <=> LeavesBoard(call.position, call.direction)
        /\ call.ret # None => call.ret = Some(Step(call.position, call.direction))

\* What the code does hold to: None at the left and top edges and at the
\* end of the u8 range, the adjacent position otherwise.
C9_MoveAsCoded ==
    call.op = "move" =>
        /\ call.ret = None <=>
               \/ call.direction = "Left" /\ call.position.x = 0
               \/ call.direction = "Up" /\ call.position.y = 0
        /\ call.ret # None => call.ret = Some(Step(call.position, call.direction))

\* --------------------------------------------------------------- C10
StableAfter(c) ==
    /\ \/ result' = Err /\ Game' = Game
       \/ result' = Ok(Some(c))
    /\ turn_color' = c
    /\ \A o \in Colors \ {c} : color_counts'[o] = None

\* C10: once an execute_turn has returned Ok(Some(c)), every later call
\* fails with InvalidRotationPosition without change or returns Ok(Some(c))
\* again, turn_color stays c and no other colour has a count again.
C10_TerminalStable ==
    [][decided # None => StableAfter(decided[1])]_vars

\* The same for the later calls that do not end in the panic of C7.
C10_StableUnlessPanic ==
    [][(decided # None /\ result'.tag # "Panic") => StableAfter(decided[1])]_vars

\* --------------------------------------------------------------- C11
\* The first call of a game on one of the all-Right boards, by Red at (0,0).
AllRightCall ==
    /\ turns = 1
    /\ prev.grid \in AllRightGrids
    /\ prev.turn_color = "Red"
    /\ last_turn = Position(0, 0)

\* C11: on the all-Right board, execute_turn at (0,0) with turn_color Red
\* leaves (0,0) pointing Right, colours exactly the cells of row 0 Red,
\* leaves every other cell as it was, and returns Ok(Some(Red)); when
\* another colour holds a cell below row 0 it returns Ok(None).
C11_AllRightScenario ==
    AllRightCall =>
        /\ result = Ok(IF prev.grid = AllRightGrid THEN Some("Red") ELSE None)
        /\ At(grid, Position(0, 0)) = Arrow(Some("Red"), "Right")
        /\ \A p \in Cells :
               IF p.y = 0
               THEN At(grid, p).alignment = Some("Red")
               ELSE At(grid, p) = At(prev.grid, p)
        /\ \A p \in Cells \ {Position(0, 0)} : At(grid, p).direction = Some("Right")

\* The call on the board without another colour has returned.
C11_Witness ==
    /\ AllRightCall
    /\ prev.grid = AllRightGrid
    /\ result = Ok(Some("Red"))
    /\ AlignedTo(grid, "Red") = {p \in Cells : p.y = 0}

\* The call on a board where Blue holds a cell below row 0 has returned.
C11_WitnessOther ==
    /\ AllRightCall
    /\ \E p \in Cells : p.y > 0 /\ At(grid, p).alignment = Some("Blue")
    /\ result = Ok(None)

\* --------------------------------------------------------------- C15
\* The values tests::pcg_next_u32 expects, in decimal digits.
Golden32 ==
    <<<<4, 1, 2, 9, 6, 2, 7, 7, 5, 2>>,
      <<2, 3, 9, 2, 3, 8, 1, 2, 6, 5>>,
      <<4, 1, 4, 3, 9, 4, 1, 1, 9, 5>>,
      <<2, 2, 0, 9, 3, 0, 2, 5, 3>>,
      <<4, 2, 5, 7, 1, 0, 9, 2, 2, 9>>,
      <<9, 7, 2, 4, 4, 8, 1, 3, 6>>,
      <<9, 3, 4, 7, 6, 4, 3, 0, 5>>,
      <<8, 7, 3, 2, 4, 3, 4, 0, 6>>,
      <<3, 8, 3, 2, 8, 4, 3, 0, 8>>,
      <<7, 8, 0, 1, 7, 6, 4, 5, 9>>>>

\* The calls so far were all next_u32 (all next_u64) calls.
OnlyU32 == \A i \in 1 .. Len(call.out) : Len(call.out[i]) = 4
OnlyU64 == \A i \in 1 .. Len(call.out) : Len(call.out[i]) = 8

\* C15: the generator with multiplier 0xf13283ad made from the seed
\* 0xcafef00dd15ea5e5 returns, on its first ten next_u32 calls, the ten
\* values of the reference sequence, in their order.
C15_ReferenceSequence ==
    (call.seed = TestSeed /\ OnlyU32) =>
        \A i \in 1 .. Len(call.out) :
            i <= Len(Golden32) => Digits(call.out[i]) = Golden32[i]

\* The tenth call has returned the tenth value.
C15_Witness ==
    /\ call.seed = TestSeed
    /\ OnlyU32
    /\ Len(call.out) = 10
    /\ Digits(call.out[10]) = Golden32[10]

\* --------------------------------------------------------------- C16
\* The values tests::pcg_next_u64 expects, in decimal digits.
Golden64 ==
    <<<<1, 0, 2, 7, 5, 1, 9, 9, 2, 9, 6, 8, 6, 7, 7, 3, 7, 1, 9, 2>>,
      <<9, 4, 8, 8, 8, 8, 2, 1, 5, 4, 7, 5, 9, 4, 7, 0, 8, 3>>,
      <<4, 1, 7, 6, 6, 3, 2, 9, 4, 5, 4, 3, 3, 2, 6, 9, 4, 8, 5>>,
      <<3, 7, 5, 0, 5, 5, 1, 8, 7, 1, 1, 5, 2, 4, 1, 4, 4, 8, 1>>,
      <<3, 3, 5, 0, 8, 3, 2, 3, 7, 6, 8, 9, 7, 3, 6, 9, 1, 7, 2>>,
      <<8, 1, 5, 7, 5, 1, 6, 0, 0, 9, 8, 5, 7, 8, 9, 1, 9, 8, 9>>,
      <<3, 7, 5, 6, 1, 6, 8, 0, 9, 0, 5, 8, 8, 7, 9, 4, 2, 3, 7>>,
      <<9, 5, 6, 8, 2, 9, 0, 1, 5, 4, 1, 3, 9, 2, 6, 3, 8, 1, 1>>,
      <<2, 7, 2, 5, 4, 0, 6, 2, 8, 7, 6, 2, 5, 2, 8, 4, 7, 6, 1>>,
      <<3, 9, 2, 7, 4, 2, 9, 6, 5, 0, 4, 8, 1, 2, 0, 7, 1, 8, 9>>>>

\* C16: a next_u64 call leaves the state two next_u32 calls would leave and
\* returns the first of their values as the low word and the second as the
\* high word; from the seed of the tests the next_u64 calls return the
\* values the tests expect.
C16_NextU64 ==
    /\ call.op = "next_u64" =>
           \E a \in {next_u32(call.before)} : \E b \in {next_u32(a.state)} :
               /\ call.state = b.state
               /\ SubSeq(call.out[Len(call.out)], 1, 4) = a.value
               /\ SubSeq(call.out[Len(call.out)], 5, 8) = b.value
    /\ (call.seed = TestSeed /\ OnlyU64) =>
           \A i \in 1 .. Len(call.out) :
               i <= Len(Golden64) => Digits(call.out[i]) = Golden64[i]

\* A next_u64 call has returned after other calls, and the tenth next_u64
\* call from the seed of the tests has returned.
C16_Witness ==
    /\ call.op = "next_u64"
    /\ call.seed = TestSeed
    /\ OnlyU64
    /\ Len(call.out) = 10
    /\ Digits(call.out[10]) = Golden64[10]

C16_WitnessMixed ==
    /\ call.op = "next_u64"
    /\ call.seed # TestSeed
    /\ Len(call.out) >= 3
    /\ ~OnlyU64

\* --------------------------------------------------------------- C12
\* Grid::generate has returned the board call.grid.
Generated == call.op = "generate" /\ call.y = BoardSize \div 2

\* The node of a generated board at column x of row y.
NodeAt(x, y) == call.grid[y][x]

\* A direction turned clockwise by k quarter turns.
Turned(d, k) ==
    CASE k = 0 -> d
      [] k = 1 -> rotate_direction(d)
      [] k = 2 -> opposite(d)
      [] k = 3 -> opposite(rotate_direction(d))

\* Node m is node n turned by k quarter turns: the same kind, and the
\* direction, if the kind has one, turned.
SameTurned(n, m, k) ==
    /\ m.kind = n.kind
    /\ IF n.direction = None THEN m.direction = None
       ELSE m.direction = Some(Turned(n.direction[1], k))

\* The cell (x, y) and the three cells it goes to when the board is turned
\* by 90, 180 and 270 degrees hold the same node, turned.
SymmetricAt(x, y) ==
    /\ SameTurned(NodeAt(x, y), NodeAt(Last - y, x), 1)
    /\ SameTurned(NodeAt(x, y), NodeAt(Last - x, Last - y), 2)
    /\ SameTurned(NodeAt(x, y), NodeAt(y, Last - x), 3)

\* C12: every generated board has 4-fold rotational symmetry in node kind
\* and direction: for every cell of the top left quadrant, the three cells
\* it is turned to hold the same kind of node with the direction turned by
\* the same angle.
C12_Symmetry == Generated => \A x \in Quadrant, y \in Quadrant : SymmetricAt(x, y)

\* What the code keeps: the Arrows are symmetric, and where a cell of the
\* quadrant holds a Wall, AllDirection or SuperArrow, so do the three cells
\* it is turned to, each with a kind and direction of its own.
Secret(n) == n.kind \in {"Wall", "AllDirection", "SuperArrow"}

C12_ArrowSymmetry ==
    Generated =>
        \A x \in Quadrant, y \in Quadrant :
            IF NodeAt(x, y).kind = "Arrow" THEN SymmetricAt(x, y)
            ELSE /\ Secret(NodeAt(x, y))
                 /\ Secret(NodeAt(Last - y, x))
                 /\ Secret(NodeAt(Last - x, Last - y))
                 /\ Secret(NodeAt(y, Last - x))

\* --------------------------------------------------------------- C14
\* The cell one step from (x, y) in direction d lies on the board.
PointsOnBoard(x, y, d) ==
    CASE d = "Left" -> x > 0
      [] d = "Up" -> y > 0
      [] d = "Right" -> x < Last
      [] d = "Down" -> y < Last

\* The corner (x, y) holds an Arrow of colour c.
CornerOf(x, y, c) == NodeAt(x, y).kind = "Arrow" /\ NodeAt(x, y).alignment = Some(c)

CornersPlaced ==
    /\ CornerOf(0, 0, "Red")
    /\ CornerOf(Last, 0, "Blue")
    /\ CornerOf(0, Last, "Yellow")
    /\ CornerOf(Last, Last, "Green")

Corners == {<<0, 0>>, <<Last, 0>>, <<0, Last>>, <<Last, Last>>}

\* C14 as written: generate places a Red Arrow at (0,0), Blue at (15,0),
\* Yellow at (0,15) and Green at (15,15), and the cell each of them points
\* at lies on the board.
C14_CornersInward ==
    Generated =>
        /\ CornersPlaced
        /\ \A c \in Corners : PointsOnBoard(c[1], c[2], NodeAt(c[1], c[2]).direction[1])

\* C14, amended: generate places a Red Arrow at (0,0), Blue at (15,0),
\* Yellow at (0,15) and Green at (15,15); each of them points off the board
\* (Up, Right, Left and Down), and the cell it points at after one rotation
\* lies on the board.
C14_Corners ==
    Generated =>
        /\ CornersPlaced
        /\ NodeAt(0, 0).direction = Some("Up")
        /\ NodeAt(Last, 0).direction = Some("Right")
        /\ NodeAt(0, Last).direction = Some("Left")
        /\ NodeAt(Last, Last).direction = Some("Down")
        /\ \A c \in Corners :
               /\ ~PointsOnBoard(c[1], c[2], NodeAt(c[1], c[2]).direction[1])
               /\ PointsOnBoard(c[1], c[2], rotate(NodeAt(c[1], c[2])).direction[1])

\* A board has been generated, with the Blue Arrow in the top right corner.
C14_Witness ==
    /\ Generated
    /\ NodeAt(Last, 0) = Arrow(Some("Blue"), "Right")
    /\ \A x \in Board, y \in Board : NodeAt(x, y) # Empty

\* --------------------------------------------------------------- C19
\* The nodes a weight counts: Arrows, aligned SuperArrows and aligned
\* AllDirections.
Counted(n) == IsColourable(n) /\ ~IsHidden(n)

ReachGrow(b, S) == S \cup {t \in UNION {SendsTo(b, c) : c \in S} : Counted(At(b, t))}

RECURSIVE ReachLeast(_, _)
ReachLeast(b, S) ==
    CHOOSE r \in {IF T = S THEN S ELSE ReachLeast(b, T) : T \in {ReachGrow(b, S)}} : TRUE

\* The counted cells reachable from p by following outgoing directions.
Reach(b, p) == ReachLeast(b, IF Counted(At(b, p)) THEN {p} ELSE {})

\* C19: for every grid and start p on the board, Game::weight(p) returns
\* the number of distinct counted cells reachable from p by following
\* outgoing directions (all four neighbours of an aligned AllDirection);
\* hidden nodes, Walls, Empty cells and steps off the board contribute 0.
C19_WeightIsReachCount ==
    call.op = "weight" =>
        /\ ~call.panic
        /\ call.ret = Cardinality(Reach(grid, call.position))

\* The same for the calls that return.
C19_WeightWhenReturned ==
    (call.op = "weight" /\ ~call.panic) => call.ret = Cardinality(Reach(grid, call.position))

\* --------------------------------------------------------------- C17
\* The selection has ended: its loops panicked, or it went on to submit.
SelectionEnded == (call.op = "select" /\ call.panic) \/ call.op = "selected"

\* A position was submitted to execute_turn.
Submitted == call.op = "selected" /\ call.best_position # None

\* The game the selection ran on.
SelectionGame == IF Submitted THEN prev ELSE Game

\* The candidates: the cells of the turn's colour that have a direction.
Candidates(game) ==
    {c \in Cells : Owned(game.grid, game.turn_color, c) /\ HasDirection(At(game.grid, c))}

\* The place of a cell in the scan, x in the outer loop and y in the inner.
ScanIndex(c) == c.x * Height + c.y

\* The cell one step from a candidate in its direction rotated clockwise.
RotatedTarget(game, c) == Step(c, rotate_direction(At(game.grid, c).direction[1]))

\* The weight of a candidate: 0 when the target is off the board or owned
\* by the turn's colour, the weight of the target otherwise.
CandidateWeight(game, c) ==
    IF RotatedTarget(game, c) \notin Cells THEN 0
    ELSE IF Owned(game.grid, game.turn_color, RotatedTarget(game, c)) THEN 0
    ELSE Cardinality(Reach(game.grid, RotatedTarget(game, c)))

\* The first candidate of the scan whose weight is the maximum.
FirstMaximum(game) ==
    CHOOSE c \in Candidates(game) :
        /\ \A o \in Candidates(game) : CandidateWeight(game, o) <= CandidateWeight(game, c)
        /\ \A o \in Candidates(game) :
               CandidateWeight(game, o) = CandidateWeight(game, c) => ScanIndex(c) <= ScanIndex(o)

\* C17: on a turn of a colour that is not the player's and that has
\* candidates, the position submitted to execute_turn is the first candidate
\* in scan order whose weight is the maximum over all candidates.
C17_FirstMaximum ==
    (SelectionEnded /\ Candidates(SelectionGame) # {}) =>
        /\ Submitted
        /\ last_turn = FirstMaximum(SelectionGame)

\* The same for the selections that get as far as submitting a position.
C17_FirstMaximumWhenSubmitted ==
    Submitted => last_turn = FirstMaximum(prev)

\* --------------------------------------------------------------- C18
\* C18: whenever it is the turn of a colour that is not the player's and
\* that owns at least one Arrow or SuperArrow, the selection completes
\* without a failed unwrap and submits a position owned by the colour, and
\* execute_turn returns Ok.
C18_AiMoveApplies ==
    (SelectionEnded /\ Candidates(SelectionGame) # {}) =>
        /\ Submitted
        /\ ~call.panic
        /\ Owned(prev.grid, prev.turn_color, last_turn)
        /\ result.tag = "Ok"

\* The same for the selections whose loops do not panic: they submit a
\* position the colour owns.
C18_OwnedWhenSubmitted ==
    (SelectionEnded /\ Candidates(SelectionGame) # {} /\ call.op = "selected") =>
        /\ Submitted
        /\ Owned(prev.grid, prev.turn_color, last_turn)

\* --------------------------------------------------------------- C20
Within(q, max) == q.x \in 0 .. max.x /\ q.y \in 0 .. max.y

\* C20: for a position within (0,0)..max and any direction,
\* move_saturating returns the adjacent cell when that cell is within
\* (0,0)..max and the position itself otherwise; and after any sequence of
\* frames the cursor of the game screen has x and y in 0..15.
C20_MoveSaturating ==
    /\ call.op = "move_saturating" =>
           call.ret = IF Within(Step(call.position, call.direction), call.max)
                      THEN Step(call.position, call.direction)
                      ELSE call.position
    /\ call.op = "cursor" => Within(call.cursor, Position(15, 15))

\* A frame in which RIGHT was newly pressed with the cursor on the right
\* column, and the cursor is still on it.
C20_Witness ==
    /\ call.op = "cursor"
    /\ call.before.x = 15
    /\ call.pressed = {"Right"}
    /\ call.cursor = call.before

\* A call at the right edge of a box smaller than the u8 range that left
\* the position where it was.
C20_WitnessCall ==
    /\ call.op = "move_saturating"
    /\ call.position = call.max
    /\ call.max = Position(3, 7)
    /\ call.direction = "Down"
    /\ call.ret = call.position

\* --------------------------------------------------------------- C21
\* Whether the last execute_turn ended in an expect() of
\* ColorCounts::change: it panicked although its beam did not.
CounterPanic ==
    /\ result.tag = "Panic"
    /\ rotate_and_beam(prev.grid, prev.turn_color, last_turn).tag = "Ok"

\* C21: in no reachable state has ColorCounts::change hit its overflow or
\* its underflow panic, and no counter exceeds the number of cells of the
\* board.
C21_CountersNeverPanic ==
    /\ ~CounterPanic
    /\ \A c \in Colors : color_counts[c] # None => color_counts[c][1] <= NumCells

\* A turn whose fill decremented a colour down to None while the mover's
\* counter went up.
C21_Witness ==
    /\ result.tag = "Ok"
    /\ \E c \in Colors \ {prev.turn_color} :
           /\ prev.color_counts[c] # None
           /\ color_counts[c] = None
    /\ color_counts[prev.turn_color][1] > prev.color_counts[prev.turn_color][1]

\* A turn after which one colour holds every cell of the board.
C21_WitnessFull ==
    /\ result.tag = "Ok"
    /\ \E c \in Colors : color_counts[c] = Some(NumCells)

\* --------------------------------------------------------------- C22
\* C22: after every execute_turn that returned Ok, the node at the chosen
\* position was an Arrow or a SuperArrow before the call and its direction
\* is the rotate-successor of its direction before the call.
C22_Rotates ==
    Returned =>
        /\ At(prev.grid, last_turn).kind \in {"Arrow", "SuperArrow"}
        /\ At(grid, last_turn).direction =
               Some(rotate_direction(At(prev.grid, last_turn).direction[1]))

\* What the code does hold to: a chosen Arrow or SuperArrow is rotated one
\* step, and a chosen AllDirection of the mover's colour is accepted and
\* left as it is.
C22_RotatesWhatHasADirection ==
    Returned =>
        /\ At(prev.grid, last_turn).kind \in {"Arrow", "AllDirection", "SuperArrow"}
        /\ At(prev.grid, last_turn).kind \in {"Arrow", "SuperArrow"} =>
               At(grid, last_turn).direction =
                   Some(rotate_direction(At(prev.grid, last_turn).direction[1]))
        /\ At(prev.grid, last_turn).kind = "AllDirection" =>
               At(grid, last_turn) = At(prev.grid, last_turn)

\* --------------------------------------------------------------- C23
\* No Empty and no Wall of a board carries a colour.
NoColourOnEmptyOrWall(g) ==
    \A p \in Cells : At(g, p).kind \in {"Empty", "Wall"} => At(g, p).alignment = None

\* From one board to the next every cell keeps its kind, and an alignment
\* that was Some is still Some.
KindsAndAlignmentsKept(g, h) ==
    \A p \in Cells :
        /\ At(h, p).kind = At(g, p).kind
        /\ At(g, p).alignment # None => At(h, p).alignment # None

\* C23: under any sequence of execute_turn calls no cell changes its node
\* kind, no Empty or Wall cell carries a colour, and no alignment goes back
\* from Some to None.
C23_KindAndAlignment ==
    [][KindsAndAlignmentsKept(grid, grid') /\ NoColourOnEmptyOrWall(grid')]_vars

\* A turn that aligned a cell that had no colour, took a cell from another
\* colour, and whose beam turned an Arrow; the board holds a Wall and an
\* Empty.
C23_Witness ==
    /\ Returned
    /\ \E p \in Cells : At(prev.grid, p).alignment = None /\ At(grid, p).alignment # None
    /\ \E p \in Cells :
           /\ At(prev.grid, p).alignment # None
           /\ At(prev.grid, p).alignment # Some(Mover)
           /\ At(grid, p).alignment = Some(Mover)
    /\ \E p \in Cells \ {last_turn} : At(prev.grid, p).direction # At(grid, p).direction
    /\ \E p \in Cells : At(grid, p).kind = "Wall"
    /\ \E p \in Cells : At(grid, p).kind = "Empty"

\* --------------------------------------------------------------- C24
\* The invocation of fill that called the one on top of the stack.
Caller == stack[Len(stack) - 1]

\* Whether the invocation on top was called by the outgoing rule of its
\* caller: the caller's node belongs to the mover and either points at the
\* position on top, the caller not yet in its loop over the nodes pointing
\* to it, or is an AllDirection next to it, the caller in or just past its
\* loop over the four directions.
CalledThroughOutgoing ==
    /\ Len(stack) >= 2
    /\ get(grid, Caller.position) # None
    /\ is_color(At(grid, Caller.position), turn_color)
    /\ \/ /\ direction(At(grid, Caller.position)) # None
          /\ move(Caller.position, direction(At(grid, Caller.position))[1]) = Some(Top.position)
          /\ Caller.pc = "incoming"
          /\ Caller.i = 1
       \/ /\ all_directions(At(grid, Caller.position))
          /\ \E d \in Directions : move(Caller.position, d) = Some(Top.position)
          /\ \/ Caller.pc = "all"
             \/ Caller.pc = "incoming" /\ Caller.i = 1

\* Every step that aligns a hidden node is the first statement of a fill
\* at that node which the outgoing rule of its caller called.
HiddenAlignedOnlyThroughOutgoing ==
    \A p \in Cells :
        (is_hidden(At(grid, p)) /\ ~is_hidden(At(grid', p))) =>
            /\ phase = "fill"
            /\ stack # <<>>
            /\ Top.position = p
            /\ Top.pc = "enter"
            /\ CalledThroughOutgoing

\* No invocation of fill that has got past its first statements, and so
\* may propagate, stands on a hidden node.
HiddenNeverPropagates ==
    \A k \in 1 .. Len(stack) :
        (stack[k].pc # "enter" /\ get(grid, stack[k].position) # None) =>
            ~is_hidden(At(grid, stack[k].position))

\* C24: a hidden AllDirection or SuperArrow becomes aligned only in a fill
\* that the outgoing rule of a cell filled in the same turn called, never
\* through the rule for the nodes pointing to a cell; and no fill
\* propagates from a node that is still hidden.
C24_HiddenOpaque ==
    /\ []HiddenNeverPropagates
    /\ [][HiddenAlignedOnlyThroughOutgoing]_vars

\* A turn has ended in which a hidden node was aligned, and in which a
\* SuperArrow that is still hidden points at a cell the turn filled.
C24_Witness ==
    /\ phase = "idle"
    /\ Returned
    /\ \E p \in Cells : is_hidden(At(prev.grid, p)) /\ is_color(At(grid, p), Mover)
    /\ \E p \in Cells :
           /\ is_hidden(At(grid, p))
           /\ direction(At(grid, p)) # None
           /\ \E q \in Cells :
                  /\ move(p, direction(At(grid, p))[1]) = Some(q)
                  /\ processed[q] > 0
                  /\ is_color(At(grid, q), Mover)

\* A turn has ended that filled a cell next to an AllDirection and left the
\* AllDirection hidden.
C24_WitnessJunction ==
    /\ phase = "idle"
    /\ Returned
    /\ \E p \in Cells :
           /\ is_hidden(At(grid, p))
           /\ all_directions(At(grid, p))
           /\ \E d \in Directions, q \in Cells :
                  /\ move(p, d) = Some(q)
                  /\ processed[q] > 0
                  /\ is_color(At(grid, q), Mover)

\* --------------------------------------------------------------- C25
\* C25: every call of Game::weight at a position on the board returns a
\* value; none ends in an index out of range of the visited array.
C25_WeightNeverFaults ==
    call.op = "weight" => ~call.panic

\* What the code does hold to: a call faults only if a node that is not
\* hidden sends to the right of the last column or below the last row, an
\* Arrow or SuperArrow by its direction or an AllDirection by standing there.
C25_FaultsOnlyOffTheEdge ==
    (call.op = "weight" /\ call.panic) =>
        \E p \in Cells :
            /\ ~is_hidden(At(grid, p))
            /\ \/ p.x = Width - 1 /\ direction(At(grid, p)) = Some("Right")
               \/ p.y = Height - 1 /\ direction(At(grid, p)) = Some("Down")
               \/ all_directions(At(grid, p)) /\ (p.x = Width - 1 \/ p.y = Height - 1)

\* --------------------------------------------------------------- C26
\* The place of a cell on the path of ChainBoard, from 0 at (0,0).
ChainIndex(p) ==
    p.y * BoardSize + (IF p.y % 2 = 0 THEN p.x ELSE BoardSize - 1 - p.x)

\* The number of cells reachable from the start position. On ChainBoard
\* it is the rest of the path. On JunctionBoard a start on the path up to
\* the junction also reaches, through the junction, the path from the cell
\* above the junction on.
TrueCount ==
    IF call.board = JunctionBoard /\ ChainIndex(call.start) <= ChainIndex(JunctionPosition)
    THEN BoardSize * BoardSize -
             (IF ChainIndex(call.start) < ChainIndex(Position(JunctionPosition.x, JunctionPosition.y - 1))
              THEN ChainIndex(call.start)
              ELSE ChainIndex(Position(JunctionPosition.x, JunctionPosition.y - 1)))
    ELSE BoardSize * BoardSize - ChainIndex(call.start)

WeightEnded == call.op = "grid_weight" /\ call.started /\ (call.stack = <<>> \/ call.panic)

\* C26: every call of Game::weight, the one on a single chain of all 256
\* cells included, ends without an addition that overflows and returns the
\* number of cells it reaches.
C26_WeightFits ==
    WeightEnded =>
        /\ ~call.panic
        /\ call.ret = TrueCount

\* What the code does hold to: a call that reaches fewer than 256 cells
\* returns their number.
C26_WeightFitsBelow256 ==
    (WeightEnded /\ TrueCount <= U8Max) =>
        /\ ~call.panic
        /\ call.ret = TrueCount

\* --------------------------------------------------------------- C27
\* The base direction the claim gives for a byte at a cell of the
\* quadrant, None where it gives a wall or secret node.
BaseDirection(b, x, y) ==
    IF b \in 0 .. 60 THEN Some(IF x = 1 /\ y = 0 THEN "Up" ELSE "Left")
    ELSE IF b \in 61 .. 120 THEN Some(IF x = 0 /\ y = 1 THEN "Left" ELSE "Up")
    ELSE IF b \in 121 .. 180 THEN Some("Right")
    ELSE IF b \in 181 .. 240 THEN Some("Down")
    ELSE IF x = 0 THEN Some("Down")
    ELSE IF y = 0 THEN Some("Right")
    ELSE None

\* The node n is what the claim gives the cell (x, y) for the byte b.
AsPartitioned(n, b, x, y) ==
    IF BaseDirection(b, x, y) # None
    THEN n = Arrow(None, BaseDirection(b, x, y)[1])
    ELSE Secret(n)

\* One step of the loops of generate: nothing drawn at (0,0); elsewhere one
\* byte, the node it stands for at the cell, and no further byte unless
\* the node is a wall or secret node.
CellAsPartitioned ==
    (call.op = "generate" /\ call.y \in Quadrant) =>
        IF call.x = 0 /\ call.y = 0
        THEN call'.state = call.state /\ call'.grid = call.grid
        ELSE \E b \in {gen_u8(call.state)} :
                 /\ AsPartitioned(call'.grid[call.y][call.x], b.value, call.x, call.y)
                 /\ BaseDirection(b.value, call.x, call.y) # None => call'.state = b.state

\* C27: for each cell of the top left quadrant other than (0,0) one byte
\* is drawn, and the cell gets an Arrow pointing Left for 0..60 (Up at
\* (1,0)), Up for 61..120 (Left at (0,1)), Right for 121..180, Down for
\* 181..240, and for 241..255 Down when x = 0, Right when y = 0 and a wall
\* or secret node otherwise; a generated board holds no Empty node.
C27_BytePartition ==
    /\ []((call.op = "match" /\ call.matched) =>
              /\ AsPartitioned(call.grid[call.y][call.x], call.byte, call.x, call.y)
              /\ BaseDirection(call.byte, call.x, call.y) # None => call.state = call.before)
    /\ [](Generated => \A x \in Board, y \in Board : NodeAt(x, y) # Empty)
    /\ [][CellAsPartitioned]_vars

\* The last byte of the first arm, at the one cell where it stands for Up.
C27_Witness ==
    /\ call.op = "match"
    /\ call.matched
    /\ call.byte = 60
    /\ call.x = 1
    /\ call.y = 0
    /\ call.grid[0][1] = Arrow(None, "Up")

\* A byte of the last arm at a cell of the left edge, of the top edge and
\* inside the quadrant.
C27_WitnessLeftEdge ==
    call.op = "match" /\ call.matched /\ call.byte = 241 /\ call.x = 0
        /\ call.grid[call.y][0] = Arrow(None, "Down")

C27_WitnessTopEdge ==
    call.op = "match" /\ call.matched /\ call.byte = U8Max /\ call.y = 0
        /\ call.grid[0][call.x] = Arrow(None, "Right")

C27_WitnessInside ==
    call.op = "match" /\ call.matched /\ call.byte = 241 /\ call.x > 0 /\ call.y > 0
        /\ call.grid[call.y][call.x].kind = "SuperArrow"

\* A generated board with no Empty node whose loops drew a byte of the
\* last arm at a cell of an edge.
C27_WitnessGenerated ==
    /\ Generated
    /\ \A x \in Board, y \in Board : NodeAt(x, y) # Empty
    /\ \E x \in Quadrant, y \in Quadrant : Secret(NodeAt(x, y))

\* --------------------------------------------------------------- C28
\* The cells of the outer border of the board.
OnBorder(x, y) == x = 0 \/ x = Last \/ y = 0 \/ y = Last

\* C28: in every generated board every cell of the outer border holds an
\* Arrow; Wall, AllDirection and SuperArrow nodes stand at inner cells
\* only, whatever byte the match gets for a cell of the quadrant.
C28_BorderIsArrows ==
    /\ Generated =>
           \A x \in Board, y \in Board : OnBorder(x, y) => NodeAt(x, y).kind = "Arrow"
    /\ (call.op = "match" /\ call.matched) =>
           /\ \A x \in Board, y \in Board : OnBorder(x, y) => ~Secret(call.grid[y][x])
           /\ OnBorder(call.x, call.y) => call.grid[call.y][call.x].kind = "Arrow"

\* A byte of the last arm of the match, 241..255, at a cell of the left
\* edge: the cell and the three it is turned to hold Arrows.
C28_Witness ==
    /\ call.op = "match"
    /\ call.matched
    /\ call.byte = 241
    /\ call.x = 0
    /\ call.grid[call.y][0] = Arrow(None, "Down")
    /\ call.grid[0][Last - call.y].kind = "Arrow"
    /\ call.grid[Last][call.y].kind = "Arrow"
    /\ call.grid[Last - call.y][Last].kind = "Arrow"

\* A generated board that holds a wall or secret node inside.
C28_WitnessGenerated ==
    /\ Generated
    /\ \E x \in Board, y \in Board : ~OnBorder(x, y) /\ Secret(NodeAt(x, y))

\* --------------------------------------------------------------- C29
\* 2 * seed + 1 mod 2^64, bit by bit: bit 0 is set and bit k is bit k - 1
\* of the seed.
TwicePlusOne(seed) ==
    [i \in 1 .. 8 |->
        Pack(LAMBDA j : IF 8 * (i - 1) + j = 0 THEN 1 ELSE Bit(seed, 8 * (i - 1) + j - 1))]

IsOdd(state) == state[1] % 2 = 1

\* C29: the state is 2 * seed + 1 mod 2^64 after new(seed), and it is odd
\* then and after any number of draws.
C29_StateStaysOdd ==
    /\ call.op = "new" => call.state = TwicePlusOne(call.seed)
    /\ call.op \in {"new", "next_u32", "next_u64"} => IsOdd(call.state)

\* What the code does hold to: the state is 2 * seed + 1 mod 2^64, and so
\* odd, after new(seed); after a draw it is the product of the state
\* before and the multiplier, xored with itself shifted right by 22, and it
\* is odd exactly when bit 22 of that product is clear.
C29_OddAfterNew ==
    /\ call.op = "new" => (call.state = TwicePlusOne(call.seed) /\ IsOdd(call.state))
    /\ (call.op = "next_u32" /\ IsOdd(call.before)) =>
           \A s1 \in {wrapping_mul(call.before, Into64(MULTIPLIER))} :
               /\ IsOdd(s1)
               /\ IsOdd(call.state) <=> Bit(s1, 22) = 0

\* --------------------------------------------------------------- C30
\* The colour to move holds a cell, and execute_turn does not reject every
\* position: there is one it lets past its check.
MoverCanMove(g, tc) ==
    /\ CountOf(g, tc) > 0
    /\ \E p \in Cells :
           /\ Owned(g, tc, p)
           /\ rotate_and_beam(g, tc, p).tag # "Err"

\* C30: if the colour to move holds a cell when the Game is built, the
\* colour to move holds a cell in every state reached, and some position
\* is accepted by execute_turn: from a state where turn_color holds a cell
\* every step leads to a state where turn_color holds a cell.
C30_MoverNeverEliminated ==
    [][CountOf(grid, turn_color) > 0 => MoverCanMove(grid', turn_color')]_vars

\* A turn that eliminated the colour next in order: the turn went past it
\* to a colour that holds a cell.
C30_Witness ==
    /\ Returned
    /\ CountOf(prev.grid, Mover) > 0
    /\ CountOf(prev.grid, TurnOrder[Mover][1]) > 0
    /\ CountOf(grid, TurnOrder[Mover][1]) = 0
    /\ turn_color # Mover
    /\ CountOf(grid, turn_color) > 0

\* A turn that eliminated every other colour: the turn stays with the mover.
C30_WitnessAlone ==
    /\ Returned
    /\ Cardinality({c \in Colors : CountOf(prev.grid, c) > 0}) > 1
    /\ turn_color = Mover
    /\ \A c \in Colors \ {Mover} : CountOf(grid, c) = 0

\* --------------------------------------------------------------- C31
\* C31: whenever execute_turn returns Ok(Some(c)), c is the colour that was
\* turn_color when the call started; so when the mover is the player and
\* the game screen shows Win, the player's colour is the only one left.
C31_WinnerIsMover ==
    /\ result.tag = "Ok" /\ result.winner # None => result.winner = Some(Mover)
    /\ \A player_color \in Colors :
           (Called /\ Mover = player_color /\ player_turn_screen(result) = Some("Win")) =>
               Alive(color_counts) = {player_color}

\* Green, last in the order of the match on the counters, moved with
\* another colour on the board and won.
C31_Witness ==
    /\ Returned
    /\ Mover = "Green"
    /\ result.winner = Some("Green")
    /\ Cardinality(Alive(prev.color_counts)) >= 2
    /\ player_turn_screen(result) = Some("Win")

\* --------------------------------------------------------------- C32
\* The number a counter stands for.
CountIn(cc, c) == IF cc[c] = None THEN 0 ELSE cc[c][1]

\* C32: in every execute_turn that returns Ok the mover's count does not
\* decrease and no other colour's count increases; and a colour that is
\* eliminated is eliminated in every later state.
C32_OnlyMoverGains ==
    /\ [](Returned =>
              /\ CountIn(color_counts, Mover) >= CountIn(prev.color_counts, Mover)
              /\ \A c \in Colors \ {Mover} :
                     CountIn(color_counts, c) <= CountIn(prev.color_counts, c))
    /\ [][\A c \in Colors :
              is_eliminated(color_counts, c) => is_eliminated(color_counts', c)]_vars

\* The second turn of a game: the mover gained cells, another colour lost
\* some, and a colour that was eliminated before the turn is eliminated
\* after it.
C32_Witness ==
    /\ Returned
    /\ turns = 2
    /\ CountIn(color_counts, Mover) > CountIn(prev.color_counts, Mover)
    /\ \E c \in Colors \ {Mover} :
           /\ CountIn(prev.color_counts, c) > CountIn(color_counts, c)
    /\ \E c \in Colors :
           /\ is_eliminated(prev.color_counts, c)
           /\ is_eliminated(color_counts, c)

\* --------------------------------------------------------------- C33
\* How many places after c the colour d stands in the order Red, Blue,
\* Yellow, Green, Red.
Distance(c, d) == (ColorIndex(d) - ColorIndex(c) + 4) % 4

\* The turns after turn i up to the next turn of the same colour, or up to
\* the last turn so far.
Until(i) ==
    {k \in (i + 1) .. Len(call.movers) :
        \A j \in (i + 1) .. k : call.movers[j] # call.movers[i]}

\* The turn of the round begun by turn i after which the slot of d came:
\* the last of them by a colour before d in the order.
SlotAfter(i, d) ==
    CHOOSE k \in {i} \cup Until(i) :
        /\ Distance(call.movers[i], call.movers[k]) < Distance(call.movers[i], d)
        /\ \A j \in Until(i) :
               j > k => Distance(call.movers[i], call.movers[j]) >= Distance(call.movers[i], d)

\* The round begun by turn i is over: the same colour has moved again.
RoundOver(i) == \E j \in (i + 1) .. Len(call.movers) :
                    call.movers[j] = call.movers[i] /\ Until(i) = (i + 1) .. (j - 1)

\* C33: in a run of turns that returned Ok, between a turn of a colour c
\* and its next turn the other colours move at most once each, in the
\* order Red, Blue, Yellow, Green, Red; a colour that did not move between
\* them had no counter when its slot came; so no colour with a counter is
\* skipped, and a colour moves twice in a row only if it alone has a
\* counter.
C33_RoundRobin ==
    call.op = "rounds" =>
        \A i \in 1 .. Len(call.movers) :
            RoundOver(i) =>
                /\ \A k \in Until(i), j \in Until(i) :
                       k < j => Distance(call.movers[i], call.movers[k])
                                    < Distance(call.movers[i], call.movers[j])
                /\ \A d \in Colors \ ({call.movers[i]} \cup {call.movers[k] : k \in Until(i)}) :
                       d \notin call.alive[SlotAfter(i, d)]

\* A round of three colours: a colour that had a counter at the start lost
\* it to the first turn, the two others moved in their order, and the
\* first mover moved again.
C33_Witness ==
    /\ call.op = "rounds"
    /\ Cardinality(call.start) = 4
    /\ RoundOver(1)
    /\ Cardinality(Until(1)) = 2
    /\ After(call.movers[1], 1) \notin call.alive[1]

\* A colour moved twice in a row.
C33_WitnessAlone ==
    /\ call.op = "rounds"
    /\ \E i \in 1 .. (Len(call.movers) - 1) : call.movers[i] = call.movers[i + 1]

\* All four colours moved and the first moved again.
C33_WitnessFull ==
    /\ call.op = "rounds"
    /\ Len(call.movers) = 5
    /\ call.movers[1] = call.movers[5]
    /\ Cardinality({call.movers[k] : k \in 1 .. 4}) = 4

\* ---------------------------------------------------------------- C34
\* The cells beyond the rotated one along the beam and before the first
\* Wall or Empty cell.
BeamLine ==
    {p \in Cells : \E k \in 1 .. (Width + Height) :
        /\ p = Beyond(k)
        /\ \A j \in 1 .. k : At(prev.grid, Beyond(j)).kind \notin {"Wall", "Empty"}}

\* C34: after an execute_turn that rotated an aligned SuperArrow to
\* direction d and returned Ok, every Arrow, AllDirection and SuperArrow
\* beyond the rotated cell along d and before the first Wall or Empty cell,
\* whatever its alignment was, is aligned to the mover's colour.
C34_BeamLineCaptured ==
    (RotatedSuperArrow /\ Returned) =>
        \A p \in BeamLine : At(grid, p).alignment = Some(Mover)

\* A beam line of two cells or more, with a cell that was hidden and a cell
\* that was of another colour, none of them pointing along the beam before.
C34_Witness ==
    /\ RotatedSuperArrow
    /\ Returned
    /\ Cardinality(BeamLine) >= 2
    /\ \E p \in BeamLine : is_hidden(At(prev.grid, p))
    /\ \E p \in BeamLine :
           /\ At(prev.grid, p).alignment # None
           /\ At(prev.grid, p).alignment # Some(Mover)
    /\ \A p \in BeamLine : At(prev.grid, p).direction # Some(BeamDirection)

\* A beam line through an AllDirection to a cell beyond it.
C34_WitnessAllDirection ==
    /\ RotatedSuperArrow
    /\ Returned
    /\ \E k \in 1 .. (Width + Height) :
           /\ Beyond(k) \in BeamLine
           /\ Beyond(k + 1) \in BeamLine
           /\ At(prev.grid, Beyond(k)).kind = "AllDirection"
           /\ At(prev.grid, Beyond(k + 1)).alignment # Some(Mover)

\* ---------------------------------------------------------------- C35
\* The starting corner of each colour.
CornerOfColor ==
    [c \in Colors |->
        CASE c = "Red" -> <<0, 0>>
          [] c = "Blue" -> <<Last, 0>>
          [] c = "Yellow" -> <<0, Last>>
          [] c = "Green" -> <<Last, Last>>]

\* The direction of the step from the cell n to the cell m next to it.
Toward(n, m) ==
    CASE m[1] = n[1] - 1 -> "Left"
      [] m[2] = n[2] - 1 -> "Up"
      [] m[1] = n[1] + 1 -> "Right"
      [] m[2] = n[2] + 1 -> "Down"

\* The cells of the board next to a cell, left, above, right and below.
NextTo(m) ==
    {n \in Board \X Board :
        \/ n[2] = m[2] /\ (n[1] = m[1] - 1 \/ n[1] = m[1] + 1)
        \/ n[1] = m[1] /\ (n[2] = m[2] - 1 \/ n[2] = m[2] + 1)}

\* No cell next to a starting corner points at the corner or spreads to it,
\* and no corner points at a cell next to it.
StartsProtected ==
    \A k \in Corners : \A n \in NextTo(k) :
        /\ NodeAt(n[1], n[2]).direction # Some(Toward(n, k))
        /\ NodeAt(n[1], n[2]).kind # "AllDirection"
        /\ NodeAt(k[1], k[2]).direction # Some(Toward(k, n))

\* The cells of the board aligned to a colour.
CellsAlignedTo(c) == {n \in Board \X Board : NodeAt(n[1], n[2]).alignment = Some(c)}

\* C35: in every generated grid, and whatever byte the match gets for a
\* cell of the quadrant, no cell next to a starting corner points at that
\* corner ((1,0) never Left and (0,1) never Up for Red, and so for the
\* three turned corners), no corner points at a cell next to it, and each
\* colour is the alignment of its corner cell and of no other.
C35_ProtectedStarts ==
    /\ Generated =>
           /\ StartsProtected
           /\ \A n \in {<<1, 0>>, <<0, 1>>, <<Last - 1, 0>>, <<Last, 1>>,
                        <<0, Last - 1>>, <<1, Last>>, <<Last, Last - 1>>, <<Last - 1, Last>>} :
                  NodeAt(n[1], n[2]).kind = "Arrow"
           /\ NodeAt(1, 0).direction # Some("Left")
           /\ NodeAt(0, 1).direction # Some("Up")
           /\ \A c \in Colors : CellsAlignedTo(c) = {CornerOfColor[c]}
    /\ (call.op = "match" /\ call.matched) =>
           /\ StartsProtected
           /\ \A c \in Colors : CellsAlignedTo(c) = {CornerOfColor[c]}

\* The match got a byte of its first arm for the cell (1,0), or a byte of
\* its second arm for the cell (0,1): the arm's own direction would point
\* at the Red corner, and the cell and the three it is turned to hold
\* Arrows that point elsewhere.
C35_Witness ==
    /\ call.op = "match"
    /\ call.matched
    /\ \/ call.byte <= 60 /\ call.x = 1 /\ call.y = 0
       \/ call.byte > 60 /\ call.byte <= 120 /\ call.x = 0 /\ call.y = 1
    /\ \A k \in Corners : \E n \in NextTo(k) : NodeAt(n[1], n[2]).kind = "Arrow"

\* A generated board.
C35_WitnessGenerated ==
    /\ Generated
    /\ \A k \in Corners : \A n \in NextTo(k) : NodeAt(n[1], n[2]).kind = "Arrow"

\* ---------------------------------------------------------------- C36
\* The distance of an axis from its target.
AxisDistance(p, t) == IF p > t THEN p - t ELSE t - p

\* The calls of scroll_to_position still to come: the greater of the two
\* axes' distances, halved and rounded up.
CallsLeft(c) ==
    LET t == position_to_pixel_location(c.target)
        dx == AxisDistance(c.position[1], t[1])
        dy == AxisDistance(c.position[2], t[2])
    IN  IF dx > dy THEN (dx + 1) \div 2 ELSE (dy + 1) \div 2

\* Neither axis has passed its target or moved away from it.
NoOvershoot(c, d) ==
    LET t == position_to_pixel_location(c.target)
    IN  \A i \in 1 .. 2 :
            /\ c.position[i] <= t[i] => (c.position[i] <= d.position[i] /\ d.position[i] <= t[i])
            /\ c.position[i] >= t[i] => (c.position[i] >= d.position[i] /\ d.position[i] >= t[i])

\* C36: from any scroll position and for any target cell, the calls of
\* scroll_to_position with that target and velocity 2 bring each axis
\* nearer its target without passing it, odd distances too, each call
\* leaves one call less to make (none at the target), the call that
\* reaches the target on both axes returns true and no earlier call does,
\* and that call comes: the wait loop of a bot turn ends.
C36_ScrollTerminates ==
    /\ [][call.op = "scroll" =>
            /\ NoOvershoot(call, call')
            /\ CallsLeft(call') = (IF CallsLeft(call) = 0 THEN 0 ELSE CallsLeft(call) - 1)
            /\ call'.completed <=> call'.position = position_to_pixel_location(call.target)]_vars
    /\ [](call.op = "scroll" =>
            (call.completed => call.position = position_to_pixel_location(call.target)))
    /\ <>(call.op = "scroll" /\ call.completed)

\* The loop has ended at the target, having started an odd distance to the
\* right of it and an odd, greater distance above it.
C36_Witness ==
    /\ call.op = "scroll"
    /\ call.completed
    /\ call.position = position_to_pixel_location(call.target)
    /\ call.start[1] > call.position[1]
    /\ call.start[2] < call.position[2]
    /\ (call.start[1] - call.position[1]) % 2 = 1
    /\ (call.position[2] - call.start[2]) % 2 = 1
    /\ call.position[2] - call.start[2] > call.start[1] - call.position[1]

\* ---------------------------------------------------------------- C37
\* The keys pressed in a value of the register: the bits, of the ten key
\* bits, that are clear.
Pressed(v) == {k \in 0 .. 9 : (v \div (2 ^ k)) % 2 = 0}

\* C37: a.contains(b) is true exactly when every key pressed in b is
\* pressed in a; so every value contains NONE, NONE contains no single key,
\* and the value with all keys pressed contains every value.
C37_Contains ==
    (call.op = "contains" /\ call.ret # None) =>
        /\ call.ret = Some(Pressed(call.other) \subseteq Pressed(call.self))
        /\ call.other = KEY_NONE => call.ret = Some(TRUE)
        /\ (call.self = KEY_NONE /\ call.other \in KeyConstants) => call.ret = Some(FALSE)
        /\ call.self = 0 => call.ret = Some(TRUE)

\* contains has returned true for A and B pressed asked for B, the fourth
\* of the tests.
C37_Witness ==
    /\ call.op = "contains"
    /\ call.self = 1020
    /\ call.other = 1021
    /\ call.ret = Some(TRUE)

\* contains has returned false for two keys asked of a value with only one
\* of them pressed.
C37_WitnessFalse ==
    /\ call.op = "contains"
    /\ call.ret = Some(FALSE)
    /\ Cardinality(Pressed(call.other)) = 2
    /\ Cardinality(Pressed(call.self) \cap Pressed(call.other)) = 1

\* NONE asked for a single key, and all keys asked for NONE.
C37_WitnessNone ==
    /\ call.op = "contains"
    /\ call.ret # None
    /\ \/ call.self = KEY_NONE /\ call.other \in KeyConstants
       \/ call.self = 0 /\ call.other = KEY_NONE

====
